---- MODULE Spec2Model ----
(***************************************************************************)
(* State-machine model of the request-dispatch and response-normalization  *)
(* layer of Piepmatz' TwitterApi.                                          *)
(*                                                                         *)
(* The repository holds two translation units that both define the class:  *)
(*   src/src/twitterapi.cpp  - operations wired with SIGNAL/SLOT connects  *)
(*   src/unnamed/part_000    - operations routed through genericRequest    *)
(* A behaviour of the model is a run of a program built from one of them;  *)
(* the variable unit records which one.  Definitions modelled from         *)
(* part_000 carry the suffix _part000 when twitterapi.cpp has a function   *)
(* of the same name with a different body.                                 *)
(*                                                                         *)
(* A QString whose characters matter is a sequence of atoms (an atom is a  *)
(* character or an opaque unreserved token); messages are plain strings.   *)
(***************************************************************************)
EXTENDS Integers, Sequences, FiniteSets, TLC

\* ------------------------------------------------------------------ bounds
MaxCalls == 2
MaxReplies == 3
MaxErrors == 1
MaxStatuses == 3
MaxNodes == 3

\* --------------------------------------------------------------- constants
TWITTERAPI_CPP == "src/twitterapi.cpp"
PART_000 == "unnamed/part_000"
nullptr == "nullptr"
HEADER_NO_RECURSION == "HEADER_NO_RECURSION"
DEFAULT_ERROR_MESSAGE == "Piepmatz couldn't understand Twitter's response!"

VARIABLES
    unit,                    \* the translation unit the program was built from
    requestor,               \* TwitterApi::requestor (primary identity)
    manager,                 \* TwitterApi::manager (plain network access)
    secretIdentityRequestor, \* TwitterApi::secretIdentityRequestor or nullptr
    replies,                 \* every QNetworkReply created so far, in order
    emitted,                 \* every signal emitted to the caller, in order
    calls,                   \* every operation the caller invoked, in order
    conversations,           \* every TweetConversationHandler created, in order
    crashed                  \* the process ended in a fault

vars == <<unit, requestor, manager, secretIdentityRequestor, replies, emitted, calls,
          conversations, crashed>>

\* ------------------------------------------------------- QString helpers
Str(a) == <<a>>

\* QString::indexOf(ch): 0-based index of the first occurrence, -1 if none
indexOf(s, ch) ==
    IF \E i \in 1..Len(s) : s[i] = ch
    THEN (CHOOSE i \in 1..Len(s) : s[i] = ch /\ \A j \in 1..(i-1) : s[j] # ch) - 1
    ELSE -1

\* QString::left(n)
\* left returning the whole string
left_whole(s, n) == s

left(s, n) == SubSeq(s, 1, n)

\* QUrl::toPercentEncoding: unreserved atoms are kept, '?' becomes %3F
toPercentEncoding(s) == [i \in 1..Len(s) |-> IF s[i] = "?" THEN "%3F" ELSE s[i]]

\* the decoding QUrlQuery applies when an item value is read back
fromPercentEncoding(s) == [i \in 1..Len(s) |-> IF s[i] = "%3F" THEN "?" ELSE s[i]]

\* QUrlQuery::queryItemValue(key): empty string when the key is absent
queryItemValue(urlQuery, key) ==
    IF key \in DOMAIN urlQuery THEN fromPercentEncoding(urlQuery[key]) ELSE <<>>

\* QString::number(int) on the codes the model uses
number(n) ==
    CASE n = 136 -> "136"
      [] n = 34  -> "34"
      [] OTHER   -> "0"

\* ------------------------------------------------------------ JSON values
InvalidDocument == [type |-> "invalid", value |-> <<>>]
ObjectDocument(v) == [type |-> "object", value |-> v]
ArrayDocument(v) == [type |-> "array", value |-> v]

isObject(doc) == doc.type = "object"
isArray(doc) == doc.type = "array"

\* ---------------------------------------------------------------- effects
\* What one function of the class does to the outside: the signals it emits,
\* the network requests it starts, the conversation handlers it creates, and
\* whether it ended the process in a fault.
NoEffects == [emit |-> <<>>, requests |-> <<>>, sessions |-> <<>>, fault |-> FALSE]
Emit(signal, args) == [NoEffects EXCEPT !.emit = <<[signal |-> signal, args |-> args]>>]
Request(req) == [NoEffects EXCEPT !.requests = <<req>>]
Session(tweetId, relatedTweets) ==
    [NoEffects EXCEPT !.sessions = <<[tweetId |-> tweetId, relatedTweets |-> relatedTweets]>>]
Fault == [NoEffects EXCEPT !.fault = TRUE]

\* STANDARD_REQ(name): title, successSignal, errorSignal by token pasting
STANDARD_REQ(name) ==
    [title |-> "TwitterApi::" \o name,
     successSignal |-> name \o "Successful",
     errorSignal |-> name \o "Error"]

\* the argument type of each success signal (QVariantMap or QVariantList),
\* which selects the genericHandlerFinished overload
SignalShape(successSignal) ==
    CASE successSignal = "showStatusSuccessful"   -> "map"
      [] successSignal = "userTimelineSuccessful" -> "list"
      [] successSignal = "followUserSuccessful"   -> "map"
      [] successSignal = "unfollowUserSuccessful" -> "map"
      [] successSignal = "mentionsTimelineSuccessful" -> "list"
      [] successSignal = "retweetTimelineSuccessful" -> "list"
      [] OTHER -> "map"

\* ----------------------------------------------------------- runRawRequest
runRawRequest(apiCall, isGetRequest, parameters, includeQueryParameters, useSecretIdentity) ==
    [url |-> apiCall,
     urlQuery |-> IF includeQueryParameters
                  THEN [key \in DOMAIN parameters |-> toPercentEncoding(parameters[key])]
                  ELSE [key \in {} |-> <<>>],
     parameters |-> parameters,
     rawHeaders |-> {},
     usedRequestor |-> IF useSecretIdentity /\ secretIdentityRequestor # nullptr
                       THEN secretIdentityRequestor
                       ELSE requestor,
     verb |-> IF isGetRequest THEN "get" ELSE "post"]

\* genericRequest: runRawRequest plus the two connects
genericRequest(apiCall, title, successSignal, errorSignal, isGetRequest, parameters, includeQueryParameters, finishedHandler, errorHandler, useSecretIdentity) ==
    LET reply == runRawRequest(apiCall, isGetRequest, parameters,
                               includeQueryParameters, useSecretIdentity)
    IN  Request(reply @@
                [title |-> title,
                 successSignal |-> successSignal,
                 errorSignal |-> errorSignal,
                 errorHandler |-> errorHandler,
                 finishedHandler |-> finishedHandler,
                 useSecretIdentity |-> useSecretIdentity])

\* a request of a function that builds it by hand and connects by SIGNAL/SLOT
SlotRequest(title, url, urlQuery, parameters, rawHeaders, usedRequestor, verb, errorHandler, finishedHandler, useSecretIdentity) ==
    Request([title |-> title, url |-> url, urlQuery |-> urlQuery,
             parameters |-> parameters, rawHeaders |-> rawHeaders,
             usedRequestor |-> usedRequestor, verb |-> verb,
             successSignal |-> nullptr, errorSignal |-> nullptr,
             errorHandler |-> errorHandler, finishedHandler |-> finishedHandler,
             useSecretIdentity |-> useSecretIdentity])

\* ------------------------------------------------------ parseErrorResponse
\* responseText is the decoded error body; the loop overwrites code and
\* message for every element of "errors", so the last element wins.
\* parseErrors keeping the first listed error
parseErrors_first(errorResponse, errorsArray) ==
    IF errorsArray = <<>> THEN errorResponse
    ELSE [errorResponse EXCEPT !.code = number(Head(errorsArray)["code"]),
                               !.message = Head(errorsArray)["message"]]

RECURSIVE parseErrors(_, _)
parseErrors(errorResponse, errorsArray) ==
    IF errorsArray = <<>> THEN errorResponse
    ELSE LET errorElementObject == Head(errorsArray)
             code == IF "code" \in DOMAIN errorElementObject
                     THEN errorElementObject["code"] ELSE 0
             message == IF "message" \in DOMAIN errorElementObject
                        THEN errorElementObject["message"] ELSE ""
         IN  parseErrors([errorResponse EXCEPT !.code = number(code),
                                               !.message = message],
                         Tail(errorsArray))

\* parseErrorResponse taking a body without an errors array for a block
parseErrorResponse_blocked(errorText, responseText) ==
    IF isObject(responseText)
       /\ "errors" \in DOMAIN responseText.value
       /\ isArray(responseText.value["errors"])
       /\ responseText.value["errors"].value # <<>>
    THEN [parseErrors([hasCode |-> FALSE, code |-> "", message |-> errorText],
                      responseText.value["errors"].value) EXCEPT !.hasCode = TRUE]
    ELSE [hasCode |-> TRUE, code |-> "136", message |-> "You have been blocked"]

\* the result map: hasCode tells whether the key "code" was inserted
parseErrorResponse(errorText, responseText) ==
    LET errorResponse == [hasCode |-> FALSE, code |-> "", message |-> errorText]
    IN  IF isObject(responseText)
           /\ "errors" \in DOMAIN responseText.value
           /\ isArray(responseText.value["errors"])
        THEN LET errorsArray == responseText.value["errors"].value
             IN  IF errorsArray = <<>> THEN errorResponse
                 ELSE [parseErrors(errorResponse, errorsArray) EXCEPT !.hasCode = TRUE]
        ELSE errorResponse

\* parsedErrorResponse.value("code") == "136"
codeIs136(parsedErrorResponse) ==
    parsedErrorResponse.hasCode /\ parsedErrorResponse.code = "136"

\* ------------------------------------------------ showStatus, userTimeline
showStatus(statusId, useSecretIdentity) ==
    LET qm == indexOf(statusId, "?")
        sanitizedStatus == IF qm >= 0 THEN left(statusId, qm) ELSE statusId
        requestParameters ==
            ("tweet_mode" :> Str("extended")) @@ ("include_entities" :> Str("true")) @@
            ("trim_user" :> Str("false")) @@ ("id" :> sanitizedStatus) @@
            ("include_ext_alt_text" :> Str("true"))
        secret == useSecretIdentity /\ secretIdentityRequestor # nullptr
    IN  SlotRequest("TwitterApi::showStatus", "API_STATUSES_SHOW",
                    requestParameters, requestParameters,
                    IF secret THEN {HEADER_NO_RECURSION} ELSE {},
                    IF secret THEN secretIdentityRequestor ELSE requestor,
                    "get", "handleShowStatusError", "handleShowStatusFinished",
                    useSecretIdentity)

showStatus_part000(statusId, useSecretIdentity) ==
    LET qm == indexOf(statusId, "?")
        sanitizedStatus == IF qm >= 0 THEN left(statusId, qm) ELSE statusId
        params ==
            ("tweet_mode" :> Str("extended")) @@ ("include_entities" :> Str("true")) @@
            ("trim_user" :> Str("false")) @@ ("id" :> sanitizedStatus) @@
            ("include_ext_alt_text" :> Str("true"))
        req == STANDARD_REQ("showStatus")
    IN  genericRequest("API_STATUSES_SHOW", req.title, req.successSignal, req.errorSignal,
                       TRUE, params, TRUE,
                       "genericHandlerFinished", "handleShowStatusError", useSecretIdentity)

userTimeline(screenName, useSecretIdentity) ==
    LET requestParameters ==
            ("tweet_mode" :> Str("extended")) @@ ("count" :> Str("200")) @@
            ("include_rts" :> Str("true")) @@ ("exclude_replies" :> Str("false")) @@
            ("screen_name" :> screenName) @@ ("include_ext_alt_text" :> Str("true"))
        secret == useSecretIdentity /\ secretIdentityRequestor # nullptr
    IN  SlotRequest("TwitterApi::userTimeline", "API_STATUSES_USER_TIMELINE",
                    requestParameters, requestParameters,
                    IF secret THEN {HEADER_NO_RECURSION} ELSE {},
                    IF secret THEN secretIdentityRequestor ELSE requestor,
                    "get", "handleUserTimelineError", "handleUserTimelineFinished",
                    useSecretIdentity)

userTimeline_part000(screenName, useSecretIdentity) ==
    LET params ==
            ("tweet_mode" :> Str("extended")) @@ ("count" :> Str("200")) @@
            ("include_rts" :> Str("true")) @@ ("exclude_replies" :> Str("false")) @@
            ("screen_name" :> screenName) @@ ("include_ext_alt_text" :> Str("true"))
        req == STANDARD_REQ("userTimeline")
    IN  genericRequest("API_STATUSES_USER_TIMELINE", req.title, req.successSignal,
                       req.errorSignal, TRUE, params, TRUE,
                       "genericHandlerFinished", "handleUserTimelineError", useSecretIdentity)

\* ----------------------------------------------------------------- handlers
\* the placeholder built in the else branch of handleShowStatusError
\* a placeholder of the marker, the identifier and the text only
fakeTweet_bare(idStr, fullText) ==
    [fakeTweet |-> TRUE, id_str |-> idStr, full_text |-> fullText]

fakeTweet(idStr, fullText) ==
    [fakeTweet |-> TRUE,
     user |-> [name |-> "", verified |-> FALSE, protected |-> FALSE,
               profile_image_url_https |-> ""],
     source |-> "Piepmatz",
     retweeted |-> FALSE,
     favorited |-> FALSE,
     entities |-> [hashtags |-> <<>>, symbols |-> <<>>, urls |-> <<>>,
                   user_mentions |-> <<>>],
     created_at |-> "Sun Jan 05 13:05:00 +0000 2020",
     id_str |-> idStr,
     full_text |-> fullText]

\* handleShowStatusError reading the id of the request issued last
handleShowStatusError_latest(reply, errorString, responseText) ==
    LET parsedErrorResponse == parseErrorResponse(errorString, responseText)
        id == queryItemValue(replies[Len(replies)].urlQuery, "id")
    IN  IF secretIdentityRequestor # nullptr /\ codeIs136(parsedErrorResponse)
           /\ HEADER_NO_RECURSION \notin reply.rawHeaders
        THEN showStatus(id, TRUE)
        ELSE Emit("showStatusSuccessful", <<fakeTweet(id, parsedErrorResponse.message)>>)

\* handleShowStatusError retrying on every remote code
handleShowStatusError_any_code(reply, errorString, responseText) ==
    LET parsedErrorResponse == parseErrorResponse(errorString, responseText)
        id == queryItemValue(reply.urlQuery, "id")
    IN  IF secretIdentityRequestor # nullptr /\ parsedErrorResponse.hasCode
           /\ HEADER_NO_RECURSION \notin reply.rawHeaders
        THEN showStatus(id, TRUE)
        ELSE Emit("showStatusSuccessful", <<fakeTweet(id, parsedErrorResponse.message)>>)

handleShowStatusError(reply, errorString, responseText) ==
    LET parsedErrorResponse == parseErrorResponse(errorString, responseText)
        id == queryItemValue(reply.urlQuery, "id")
    IN  IF secretIdentityRequestor # nullptr /\ codeIs136(parsedErrorResponse)
           /\ HEADER_NO_RECURSION \notin reply.rawHeaders
        THEN showStatus(id, TRUE)
        ELSE Emit("showStatusSuccessful", <<fakeTweet(id, parsedErrorResponse.message)>>)

handleShowStatusError_part000(reply, errorString, responseText) ==
    LET parsedErrorResponse == parseErrorResponse(errorString, responseText)
        id == queryItemValue(reply.urlQuery, "id")
    IN  IF secretIdentityRequestor # nullptr /\ codeIs136(parsedErrorResponse)
           /\ HEADER_NO_RECURSION \notin reply.rawHeaders
        THEN showStatus_part000(id, TRUE)
        ELSE Emit("showStatusSuccessful", <<fakeTweet(id, parsedErrorResponse.message)>>)

handleUserTimelineError(reply, errorString, responseText) ==
    LET parsedErrorResponse == parseErrorResponse(errorString, responseText)
        screenName == queryItemValue(reply.urlQuery, "screen_name")
    IN  IF secretIdentityRequestor # nullptr /\ codeIs136(parsedErrorResponse)
           /\ HEADER_NO_RECURSION \notin reply.rawHeaders
        THEN userTimeline(screenName, TRUE)
        ELSE Emit("userTimelineError", <<parsedErrorResponse.message>>)

handleUserTimelineError_part000(reply, errorString, responseText) ==
    LET parsedErrorResponse == parseErrorResponse(errorString, responseText)
        screenName == queryItemValue(reply.urlQuery, "screen_name")
    IN  IF secretIdentityRequestor # nullptr /\ codeIs136(parsedErrorResponse)
           /\ HEADER_NO_RECURSION \notin reply.rawHeaders
        THEN userTimeline_part000(screenName, TRUE)
        ELSE Emit("userTimelineError", <<parsedErrorResponse.message>>)

\* failed is reply->error() != QNetworkReply::NoError
handleShowStatusFinished(reply, failed, document) ==
    IF failed THEN NoEffects
    ELSE IF isObject(document)
         THEN Emit("showStatusSuccessful", <<document.value>>)
         ELSE Emit("showStatusError", <<"Piepmatz couldn't understand Twitter's response!">>)

handleUserTimelineFinished(reply, failed, document) ==
    IF failed THEN NoEffects
    ELSE IF isArray(document)
         THEN Emit("userTimelineSuccessful", <<document.value>>)
         ELSE Emit("userTimelineError", <<"Piepmatz couldn't understand Twitter's response!">>)

\* the two overloads of genericHandlerFinished, after the first of them without
\* its check of reply->error()
genericHandlerFinished_map_unguarded(reply, failed, document) ==
    IF isObject(document)
    THEN Emit(reply.successSignal, <<document.value>>)
    ELSE Emit(reply.errorSignal, <<DEFAULT_ERROR_MESSAGE>>)

genericHandlerFinished_map(reply, failed, document) ==
    IF failed THEN NoEffects
    ELSE IF isObject(document)
         THEN Emit(reply.successSignal, <<document.value>>)
         ELSE Emit(reply.errorSignal, <<DEFAULT_ERROR_MESSAGE>>)

genericHandlerFinished_list(reply, failed, document) ==
    IF failed THEN NoEffects
    ELSE IF isArray(document)
         THEN Emit(reply.successSignal, <<document.value>>)
         ELSE Emit(reply.errorSignal, <<DEFAULT_ERROR_MESSAGE>>)

genericHandlerFailure(reply, errorString, responseText) ==
    LET parsedErrorResponse == parseErrorResponse(errorString, responseText)
    IN  Emit(reply.errorSignal, <<parsedErrorResponse.message>>)

\* ------------------------------------------------- followUser, unfollowUser
\* the values genericRequest's trailing parameters take when a call omits them
DefaultFinishedHandler == "genericHandlerFinished"
DefaultErrorHandler == "genericHandlerFailure"
DefaultUseSecretIdentity == FALSE

\* followUser posting under the alternate identity when there is one
followUser_alternate(screenName) ==
    LET requestParameters ==
            ("tweet_mode" :> Str("extended")) @@ ("screen_name" :> screenName)
    IN  SlotRequest("TwitterApi::followUser", "API_FRIENDSHIPS_CREATE",
                    <<>>, requestParameters, {},
                    IF secretIdentityRequestor # nullptr
                    THEN secretIdentityRequestor ELSE requestor,
                    "post",
                    "handleFollowUserError", "handleFollowUserFinished", TRUE)

followUser(screenName) ==
    LET requestParameters ==
            ("tweet_mode" :> Str("extended")) @@ ("screen_name" :> screenName)
    IN  SlotRequest("TwitterApi::followUser", "API_FRIENDSHIPS_CREATE",
                    <<>>, requestParameters, {}, requestor, "post",
                    "handleFollowUserError", "handleFollowUserFinished", FALSE)

followUser_part000(screenName) ==
    LET params == ("tweet_mode" :> Str("extended")) @@ ("screen_name" :> screenName)
        req == STANDARD_REQ("followUser")
    IN  genericRequest("API_FRIENDSHIPS_CREATE", req.title, req.successSignal,
                       req.errorSignal, FALSE, params, FALSE,
                       "handleFollowUserFinished", "genericHandlerFailure",
                       DefaultUseSecretIdentity)

unfollowUser(screenName) ==
    LET requestParameters ==
            ("tweet_mode" :> Str("extended")) @@ ("screen_name" :> screenName)
    IN  SlotRequest("TwitterApi::unfollowUser", "API_FRIENDSHIPS_DESTROY",
                    <<>>, requestParameters, {}, requestor, "post",
                    "handleUnfollowUserError", "handleUnfollowUserFinished", FALSE)

unfollowUser_part000(screenName) ==
    LET params == ("tweet_mode" :> Str("extended")) @@ ("screen_name" :> screenName)
        req == STANDARD_REQ("unfollowUser")
    IN  genericRequest("API_FRIENDSHIPS_DESTROY", req.title, req.successSignal,
                       req.errorSignal, FALSE, params, TRUE,
                       DefaultFinishedHandler, DefaultErrorHandler,
                       DefaultUseSecretIdentity)

\* QJsonObject::remove and QJsonObject::insert
remove(object, key) == [k \in DOMAIN object \ {key} |-> object[k]]
insert(object, key, value) ==
    [k \in DOMAIN object \cup {key} |-> IF k = key THEN value ELSE object[k]]

handleFollowUserError(reply, errorString, responseText) ==
    LET parsedErrorResponse == parseErrorResponse(errorString, responseText)
    IN  Emit("followUserError", <<parsedErrorResponse.message>>)

\* handleFollowUserFinished passing the payload on as it came
handleFollowUserFinished_passthrough(reply, failed, document) ==
    IF failed THEN NoEffects
    ELSE IF isObject(document)
         THEN Emit("followUserSuccessful", <<document.value>>)
         ELSE Emit("followUserError", <<DEFAULT_ERROR_MESSAGE>>)

handleFollowUserFinished(reply, failed, document) ==
    IF failed THEN NoEffects
    ELSE IF isObject(document)
         THEN LET responseObject == insert(remove(document.value, "following"),
                                           "following", TRUE)
              IN  Emit("followUserSuccessful", <<responseObject>>)
         ELSE Emit("followUserError", <<DEFAULT_ERROR_MESSAGE>>)

handleUnfollowUserError(reply, errorString, responseText) ==
    LET parsedErrorResponse == parseErrorResponse(errorString, responseText)
    IN  Emit("unfollowUserError", <<parsedErrorResponse.message>>)

handleUnfollowUserFinished(reply, failed, document) ==
    IF failed THEN NoEffects
    ELSE IF isObject(document)
         THEN LET responseObject == insert(remove(document.value, "following"),
                                           "following", FALSE)
              IN  Emit("unfollowUserSuccessful", <<responseObject>>)
         ELSE Emit("unfollowUserError", <<DEFAULT_ERROR_MESSAGE>>)

\* -------------------------------------------------- searchTweets, searchUsers
\* searchTweets without the early return for an empty query
searchTweets_no_early_return(query) ==
    LET requestParameters ==
            ("tweet_mode" :> Str("extended")) @@ ("q" :> query) @@
            ("count" :> Str("100")) @@ ("include_entities" :> Str("true")) @@
            ("include_ext_alt_text" :> Str("true"))
    IN  SlotRequest("TwitterApi::searchTweets", "API_SEARCH_TWEETS",
                    [requestParameters EXCEPT !["q"] = toPercentEncoding(query)],
                    requestParameters, {}, requestor, "get",
                    "handleSearchTweetsError", "handleSearchTweetsFinished", FALSE)

searchTweets(query) ==
    IF query = <<>>
    THEN Emit("searchTweetsSuccessful", << <<>> >>)
    ELSE LET searchString == toPercentEncoding(query)
             urlQuery ==
                 ("tweet_mode" :> Str("extended")) @@ ("q" :> searchString) @@
                 ("count" :> Str("100")) @@ ("include_entities" :> Str("true")) @@
                 ("include_ext_alt_text" :> Str("true"))
             requestParameters ==
                 ("tweet_mode" :> Str("extended")) @@ ("q" :> query) @@
                 ("count" :> Str("100")) @@ ("include_entities" :> Str("true")) @@
                 ("include_ext_alt_text" :> Str("true"))
         IN  SlotRequest("TwitterApi::searchTweets", "API_SEARCH_TWEETS",
                         urlQuery, requestParameters, {}, requestor, "get",
                         "handleSearchTweetsError", "handleSearchTweetsFinished", FALSE)

searchUsers(query) ==
    IF query = <<>>
    THEN Emit("searchUsersSuccessful", << <<>> >>)
    ELSE LET searchString == toPercentEncoding(query)
             urlQuery ==
                 ("tweet_mode" :> Str("extended")) @@ ("q" :> searchString) @@
                 ("count" :> Str("20")) @@ ("include_entities" :> Str("true"))
             requestParameters ==
                 ("tweet_mode" :> Str("extended")) @@ ("q" :> query) @@
                 ("count" :> Str("20")) @@ ("include_entities" :> Str("true"))
         IN  SlotRequest("TwitterApi::searchUsers", "API_SEARCH_USERS",
                         urlQuery, requestParameters, {}, requestor, "get",
                         "handleSearchUsersError", "handleSearchUsersFinished", FALSE)

handleSearchTweetsError(reply, errorString, responseText) ==
    LET parsedErrorResponse == parseErrorResponse(errorString, responseText)
    IN  Emit("searchTweetsError", <<parsedErrorResponse.message>>)

\* the de-duplication comparing every entry's own id_str
currentStatusId_own(currentObject) ==
    IF "id_str" \in DOMAIN currentObject THEN currentObject["id_str"] ELSE ""

\* the identifier the de-duplication compares: the reshared message's id_str
\* when the entry has a retweeted_status, its own id_str otherwise
currentStatusId(currentObject) ==
    IF "retweeted_status" \in DOMAIN currentObject
    THEN IF "id_str" \in DOMAIN currentObject["retweeted_status"]
         THEN currentObject["retweeted_status"]["id_str"] ELSE ""
    ELSE IF "id_str" \in DOMAIN currentObject THEN currentObject["id_str"] ELSE ""

\* the loop putting every kept entry in front of the result
RECURSIVE removeDuplicates_reversed(_, _, _, _)
removeDuplicates_reversed(originalResultsArray, i, foundStatusIds, resultsArray) ==
    IF i > Len(originalResultsArray) THEN resultsArray
    ELSE LET currentObject == originalResultsArray[i]
             id == currentStatusId(currentObject)
         IN  IF \A k \in 1..Len(foundStatusIds) : foundStatusIds[k] # id
             THEN removeDuplicates_reversed(originalResultsArray, i + 1,
                                            Append(foundStatusIds, id),
                                            <<currentObject>> \o resultsArray)
             ELSE removeDuplicates_reversed(originalResultsArray, i + 1,
                                            foundStatusIds, resultsArray)

\* the loop passing over the first entry of the list
RECURSIVE removeDuplicates_skipping(_, _, _, _)
removeDuplicates_skipping(originalResultsArray, i, foundStatusIds, resultsArray) ==
    IF i > Len(originalResultsArray) THEN resultsArray
    ELSE LET currentObject == originalResultsArray[i]
             id == currentStatusId(currentObject)
         IN  IF i > 1 /\ \A k \in 1..Len(foundStatusIds) : foundStatusIds[k] # id
             THEN removeDuplicates_skipping(originalResultsArray, i + 1,
                                            Append(foundStatusIds, id),
                                            Append(resultsArray, currentObject))
             ELSE removeDuplicates_skipping(originalResultsArray, i + 1,
                                            foundStatusIds, resultsArray)

\* the loop of handleSearchTweetsFinished from index i on
RECURSIVE removeDuplicates(_, _, _, _)
removeDuplicates(originalResultsArray, i, foundStatusIds, resultsArray) ==
    IF i > Len(originalResultsArray) THEN resultsArray
    ELSE LET currentObject == originalResultsArray[i]
             id == currentStatusId(currentObject)
         IN  IF \A k \in 1..Len(foundStatusIds) : foundStatusIds[k] # id
             THEN removeDuplicates(originalResultsArray, i + 1,
                                   Append(foundStatusIds, id),
                                   Append(resultsArray, currentObject))
             ELSE removeDuplicates(originalResultsArray, i + 1,
                                   foundStatusIds, resultsArray)

\* QJsonValue::toArray of responseObject.value("statuses")
statusesOf(responseObject) ==
    IF "statuses" \in DOMAIN responseObject /\ isArray(responseObject["statuses"])
    THEN responseObject["statuses"].value
    ELSE <<>>

handleSearchTweetsFinished(reply, failed, document) ==
    IF failed THEN NoEffects
    ELSE IF isObject(document)
         THEN LET originalResultsArray == statusesOf(document.value)
              IN  Emit("searchTweetsSuccessful",
                       <<removeDuplicates(originalResultsArray, 1, <<>>, <<>>)>>)
         ELSE Emit("searchTweetsError", <<DEFAULT_ERROR_MESSAGE>>)

handleSearchUsersError(reply, errorString, responseText) ==
    LET parsedErrorResponse == parseErrorResponse(errorString, responseText)
    IN  Emit("searchUsersError", <<parsedErrorResponse.message>>)

handleSearchUsersFinished_best_effort(reply, failed, document) ==
    IF failed THEN NoEffects
    ELSE Emit("searchUsersSuccessful", <<document.value>>)

handleSearchUsersFinished(reply, failed, document) ==
    IF failed THEN NoEffects
    ELSE IF isArray(document)
         THEN Emit("searchUsersSuccessful", <<document.value>>)
         ELSE Emit("searchUsersError", <<DEFAULT_ERROR_MESSAGE>>)

\* ------------------------------------------------ getOpenGraph, getSingleTweet
\* A content-type header is abstracted to what the handlers read from it:
\* whether it is present, whether it contains text/html, and the tokens that
\* follow each "charset=" in order.
\* getOpenGraph joining a request for the same address that is in flight
getOpenGraph_deduplicated(address) ==
    IF \E r \in 1..Len(replies) : replies[r].url = address /\ replies[r].phase = "sent"
    THEN NoEffects
    ELSE SlotRequest("TwitterApi::getOpenGraph", address, <<>>, <<>>,
                     {"Accept", "Accept-Charset", "Connection", "Cache-Control"},
                     manager, "get",
                     "handleGetOpenGraphError", "handleGetOpenGraphFinished", FALSE)

getOpenGraph(address) ==
    SlotRequest("TwitterApi::getOpenGraph", address, <<>>, <<>>,
                {"Accept", "Accept-Charset", "Connection", "Cache-Control"},
                manager, "get",
                "handleGetOpenGraphError", "handleGetOpenGraphFinished", FALSE)

getSingleTweet(tweetId, address) ==
    SlotRequest("TwitterApi::getSingleTweet", address, <<>>, <<>>,
                {"Accept-Charset", "Connection", "Cache-Control"},
                manager, "get",
                "handleGetSingleTweetError", "handleGetSingleTweetFinished", FALSE)

\* QString::toUpper on the charset tokens the model uses
toUpper(token) ==
    CASE token = "utf-8" -> "UTF-8"
      [] token = "Utf-8" -> "UTF-8"
      [] token = "iso-8859-1" -> "ISO-8859-1"
      [] token = "x-unknown" -> "X-UNKNOWN"
      [] OTHER -> token

\* QTextCodec::codecForName: nullptr when no codec has that name
codecForName(charset) ==
    IF charset \in {"UTF-8", "ISO-8859-1"} THEN charset ELSE nullptr

\* the charset handleGetOpenGraphFinished decodes the document with
\* openGraphCharset taking the first declared token
openGraphCharset_first(contentTypeHeader) ==
    LET availableCharsets ==
            [i \in 1..Len(contentTypeHeader.charsets) |->
                toUpper(contentTypeHeader.charsets[i])]
    IN  IF Len(availableCharsets) > 0
           /\ \A i \in 1..Len(availableCharsets) : availableCharsets[i] # "UTF-8"
        THEN availableCharsets[1]
        ELSE "UTF-8"

openGraphCharset(contentTypeHeader) ==
    LET availableCharsets ==
            [i \in 1..Len(contentTypeHeader.charsets) |->
                toUpper(contentTypeHeader.charsets[i])]
    IN  IF Len(availableCharsets) > 0
           /\ \A i \in 1..Len(availableCharsets) : availableCharsets[i] # "UTF-8"
        THEN availableCharsets[Len(availableCharsets)]
        ELSE "UTF-8"

\* handleGetOpenGraphError only logging, as handleGetSingleTweetError does
handleGetOpenGraphError_silent(reply, errorString, responseText) ==
    NoEffects

handleGetOpenGraphError(reply, errorString, responseText) ==
    LET parsedErrorResponse == parseErrorResponse(errorString, responseText)
    IN  Emit("getOpenGraphError", <<parsedErrorResponse.message>>)

\* document.value.og maps each og tag the four searches find to its content;
\* codec->toUnicode on a null codec is undefined: response.undefined says
\* whether the build faults there or goes on with the text it got.
\* handleGetOpenGraphFinished keeping the og:url the document declared
handleGetOpenGraphFinished_canonical(reply, failed, response) ==
    IF failed THEN NoEffects
    ELSE LET requestAddress == reply.url
             contentTypeHeader == response.contentTypeHeader
         IN  IF ~contentTypeHeader.isValid THEN NoEffects
             ELSE IF ~contentTypeHeader.textHtml THEN NoEffects
             ELSE LET charset == openGraphCharset(contentTypeHeader)
                      codec == codecForName(charset)
                      found == response.document.value.og
                      openGraphData ==
                          [tag \in DOMAIN found \cap {"url", "image", "description", "title"}
                              |-> found[tag]]
                  IN  IF codec = nullptr /\ response.undefined = "fault" THEN Fault
                      ELSE IF DOMAIN openGraphData = {}
                      THEN Emit("getOpenGraphError",
                                <<requestAddress \o " does not contain Open Graph data">>)
                      ELSE LET withUrl == IF "url" \in DOMAIN openGraphData THEN openGraphData
                                          ELSE insert(openGraphData, "url", requestAddress)
                               withTitle == IF "title" \in DOMAIN withUrl THEN withUrl
                                            ELSE insert(withUrl, "title", withUrl["url"])
                           IN  Emit("getOpenGraphSuccessful", <<withTitle>>)

handleGetOpenGraphFinished(reply, failed, response) ==
    IF failed THEN NoEffects
    ELSE LET requestAddress == reply.url
             contentTypeHeader == response.contentTypeHeader
         IN  IF ~contentTypeHeader.isValid THEN NoEffects
             ELSE IF ~contentTypeHeader.textHtml THEN NoEffects
             ELSE LET charset == openGraphCharset(contentTypeHeader)
                      codec == codecForName(charset)
                      found == response.document.value.og
                      openGraphData ==
                          [tag \in DOMAIN found \cap {"url", "image", "description", "title"}
                              |-> found[tag]]
                  IN  IF codec = nullptr /\ response.undefined = "fault" THEN Fault
                      ELSE IF DOMAIN openGraphData = {}
                      THEN Emit("getOpenGraphError",
                                <<requestAddress \o " does not contain Open Graph data">>)
                      ELSE LET withUrl == insert(openGraphData, "url", requestAddress)
                               withTitle == IF "title" \in DOMAIN withUrl THEN withUrl
                                            ELSE insert(withUrl, "title", withUrl["url"])
                           IN  Emit("getOpenGraphSuccessful", <<withTitle>>)

handleGetSingleTweetError(reply, errorString, responseText) ==
    NoEffects

\* QRegExp("status\\/(\\d+)") on the addresses the model uses
tweetIdRegex(requestAddress) ==
    CASE requestAddress = "https://twitter.com/alice/status/42" -> "42"
      [] OTHER -> ""

\* the ids of the nodes of class tweet that are not promoted, from node i on
RECURSIVE relatedTweetsFrom(_, _)
relatedTweetsFrom(tweetNodes, i) ==
    IF i > Len(tweetNodes) THEN <<>>
    ELSE LET tweetNode == tweetNodes[i]
             rest == relatedTweetsFrom(tweetNodes, i + 1)
         IN  IF "promoted-tweet" \notin tweetNode.classList
                /\ tweetNode.dataTweetId # ""
             THEN <<tweetNode.dataTweetId>> \o rest
             ELSE rest

\* getElementsByClassName returning every element of the page
getElementsByClassName_all(nodes, className) ==
    nodes

\* root.getElementsByClassName("tweet")
getElementsByClassName(nodes, className) ==
    SelectSeq(nodes, LAMBDA node : className \in node.classList)

\* handleGetSingleTweetFinished without the content type checks
handleGetSingleTweetFinished_any_content(reply, failed, response) ==
    IF failed THEN NoEffects
    ELSE LET currentTweetId == tweetIdRegex(reply.url)
             tweetNodes == getElementsByClassName(response.document.value.nodes, "tweet")
             relatedTweets == relatedTweetsFrom(tweetNodes, 1)
         IN  IF relatedTweets # <<>>
             THEN Session(currentTweetId, relatedTweets)
             ELSE NoEffects

\* handleGetSingleTweetFinished building a conversation for every HTML page
handleGetSingleTweetFinished_always(reply, failed, response) ==
    IF failed THEN NoEffects
    ELSE LET contentTypeHeader == response.contentTypeHeader
         IN  IF ~contentTypeHeader.isValid THEN NoEffects
             ELSE IF ~contentTypeHeader.textHtml THEN NoEffects
             ELSE LET tweetNodes == getElementsByClassName(response.document.value.nodes,
                                                            "tweet")
                  IN  Session(tweetIdRegex(reply.url), relatedTweetsFrom(tweetNodes, 1))

handleGetSingleTweetFinished(reply, failed, response) ==
    IF failed THEN NoEffects
    ELSE LET requestAddress == reply.url
             contentTypeHeader == response.contentTypeHeader
         IN  IF ~contentTypeHeader.isValid THEN NoEffects
             ELSE IF ~contentTypeHeader.textHtml THEN NoEffects
             ELSE LET currentTweetId == tweetIdRegex(requestAddress)
                      tweetNodes == getElementsByClassName(response.document.value.nodes,
                                                            "tweet")
                      relatedTweets == relatedTweetsFrom(tweetNodes, 1)
                  IN  IF relatedTweets # <<>>
                      THEN Session(currentTweetId, relatedTweets)
                      ELSE NoEffects

\* TweetConversationHandler::buildConversation: one single-message fetch per
\* related identifier is started; nothing is fetched yet, nothing is reported
buildConversation(session) ==
    session @@ [pending |-> DOMAIN session.relatedTweets,
                receivedTweets |-> <<>>,
                completed |-> FALSE]

\* handleTweetConversationReceived emitting the conversation twice
handleTweetConversationReceived_twice(tweetId, receivedTweets) ==
    [NoEffects EXCEPT !.emit = <<[signal |-> "tweetConversationReceived",
                                  args |-> <<tweetId, receivedTweets>>],
                                 [signal |-> "tweetConversationReceived",
                                  args |-> <<tweetId, receivedTweets>>]>>]

\* the slot connected to tweetConversationCompleted(QString, QVariantList)
handleTweetConversationReceived(tweetId, receivedTweets) ==
    Emit("tweetConversationReceived", <<tweetId, receivedTweets>>)

\* ------------------------------------------------------------ timelines
\* homeTimeline and listTimeline pick the finished slot by maxId.isEmpty()
homeTimeline(maxId) ==
    LET base == ("tweet_mode" :> Str("extended")) @@ ("exclude_replies" :> Str("false")) @@
                ("count" :> Str("200")) @@ ("include_ext_alt_text" :> Str("true"))
        requestParameters == IF maxId # <<>> THEN base @@ ("max_id" :> maxId) ELSE base
    IN  SlotRequest("TwitterApi::homeTimeline", "API_STATUSES_HOME_TIMELINE",
                    requestParameters, requestParameters, {}, requestor, "get",
                    "handleHomeTimelineError",
                    IF maxId = <<>> THEN "handleHomeTimelineFinished"
                    ELSE "handleHomeTimelineLoadMoreFinished",
                    FALSE)

homeTimeline_part000(maxId) ==
    LET base == ("tweet_mode" :> Str("extended")) @@ ("exclude_replies" :> Str("false")) @@
                ("count" :> Str("200")) @@ ("include_ext_alt_text" :> Str("true"))
        params == IF maxId # <<>> THEN base @@ ("max_id" :> maxId) ELSE base
        finishedHandler == IF maxId # <<>> THEN "handleHomeTimelineLoadMoreFinished"
                           ELSE "handleHomeTimelineFinished"
    IN  genericRequest("API_STATUSES_HOME_TIMELINE", "TwitterApi::homeTimeline",
                       nullptr, "homeTimelineError", TRUE, params, TRUE,
                       finishedHandler, "genericHandlerFailure", DefaultUseSecretIdentity)

listTimeline(listId, maxId) ==
    LET base == ("tweet_mode" :> Str("extended")) @@ ("list_id" :> listId) @@
                ("count" :> Str("200")) @@ ("include_ext_alt_text" :> Str("true"))
        requestParameters == IF maxId # <<>> THEN base @@ ("max_id" :> maxId) ELSE base
    IN  SlotRequest("TwitterApi::listTimeline", "API_LISTS_STATUSES",
                    requestParameters, requestParameters, {}, requestor, "get",
                    "handleListTimelineError",
                    IF maxId = <<>> THEN "handleListTimelineFinished"
                    ELSE "handleListTimelineLoadMoreFinished",
                    FALSE)

mentionsTimeline ==
    LET requestParameters ==
            ("tweet_mode" :> Str("extended")) @@ ("include_entities" :> Str("true")) @@
            ("count" :> Str("200")) @@ ("include_ext_alt_text" :> Str("true"))
    IN  SlotRequest("TwitterApi::mentionsTimeline", "API_STATUSES_MENTIONS_TIMELINE",
                    requestParameters, requestParameters, {}, requestor, "get",
                    "handleMentionsTimelineError", "handleMentionsTimelineFinished", FALSE)

mentionsTimeline_part000 ==
    LET params ==
            ("tweet_mode" :> Str("extended")) @@ ("include_entities" :> Str("true")) @@
            ("count" :> Str("200")) @@ ("include_ext_alt_text" :> Str("true"))
        req == STANDARD_REQ("mentionsTimeline")
    IN  genericRequest("API_STATUSES_MENTIONS_TIMELINE", req.title, req.successSignal,
                       req.errorSignal, TRUE, params, TRUE,
                       DefaultFinishedHandler, DefaultErrorHandler,
                       DefaultUseSecretIdentity)

retweetTimeline ==
    LET requestParameters ==
            ("tweet_mode" :> Str("extended")) @@ ("include_entities" :> Str("true")) @@
            ("trim_user" :> Str("false")) @@ ("count" :> Str("10")) @@
            ("include_ext_alt_text" :> Str("true"))
    IN  SlotRequest("TwitterApi::retweetTimeline", "API_STATUSES_RETWEET_TIMELINE",
                    requestParameters, requestParameters, {}, requestor, "get",
                    "handleRetweetTimelineError", "handleRetweetTimelineFinished", FALSE)

retweetTimeline_part000 ==
    LET params ==
            ("tweet_mode" :> Str("extended")) @@ ("include_entities" :> Str("true")) @@
            ("trim_user" :> Str("false")) @@ ("count" :> Str("10")) @@
            ("include_ext_alt_text" :> Str("true"))
        req == STANDARD_REQ("retweetTimeline")
    IN  genericRequest("API_STATUSES_RETWEET_TIMELINE", req.title, req.successSignal,
                       req.errorSignal, TRUE, params, TRUE,
                       DefaultFinishedHandler, DefaultErrorHandler,
                       DefaultUseSecretIdentity)

handleHomeTimelineError(reply, errorString, responseText) ==
    LET parsedErrorResponse == parseErrorResponse(errorString, responseText)
    IN  Emit("homeTimelineError", <<parsedErrorResponse.message>>)

\* the second argument of homeTimelineSuccessful is incrementalUpdate
handleHomeTimelineFinished(reply, failed, document) ==
    IF failed THEN NoEffects
    ELSE IF isArray(document)
         THEN Emit("homeTimelineSuccessful", <<document.value, FALSE>>)
         ELSE Emit("homeTimelineError", <<"Piepmatz couldn't understand Twitter's response!">>)

handleHomeTimelineLoadMoreFinished_initial(reply, failed, document) ==
    handleHomeTimelineFinished(reply, failed, document)

handleHomeTimelineLoadMoreFinished(reply, failed, document) ==
    IF failed THEN NoEffects
    ELSE IF isArray(document)
         THEN Emit("homeTimelineSuccessful", <<document.value, TRUE>>)
         ELSE Emit("homeTimelineError", <<"Piepmatz couldn't understand Twitter's response!">>)

\* _handleHomeTimelineFinishedHelper, which both slots of part_000 call
handleHomeTimelineFinishedHelper_part000(reply, failed, document, incrementalUpdate) ==
    IF failed THEN NoEffects
    ELSE IF isArray(document)
         THEN Emit("homeTimelineSuccessful", <<document.value, incrementalUpdate>>)
         ELSE Emit("homeTimelineError", <<DEFAULT_ERROR_MESSAGE>>)

handleHomeTimelineFinished_part000(reply, failed, document) ==
    handleHomeTimelineFinishedHelper_part000(reply, failed, document, FALSE)

handleHomeTimelineLoadMoreFinished_part000(reply, failed, document) ==
    handleHomeTimelineFinishedHelper_part000(reply, failed, document, TRUE)

handleListTimelineError(reply, errorString, responseText) ==
    LET parsedErrorResponse == parseErrorResponse(errorString, responseText)
    IN  Emit("listTimelineError", <<parsedErrorResponse.message>>)

\* handleListTimelineFinished tagging by the request issued last
handleListTimelineFinished_latest(reply, failed, document) ==
    IF failed THEN NoEffects
    ELSE IF isArray(document)
         THEN Emit("listTimelineSuccessful",
                   <<document.value, "max_id" \in DOMAIN replies[Len(replies)].parameters>>)
         ELSE Emit("listTimelineError", <<DEFAULT_ERROR_MESSAGE>>)

handleListTimelineFinished(reply, failed, document) ==
    IF failed THEN NoEffects
    ELSE IF isArray(document)
         THEN Emit("listTimelineSuccessful", <<document.value, FALSE>>)
         ELSE Emit("listTimelineError", <<DEFAULT_ERROR_MESSAGE>>)

handleListTimelineLoadMoreFinished(reply, failed, document) ==
    IF failed THEN NoEffects
    ELSE IF isArray(document)
         THEN Emit("listTimelineSuccessful", <<document.value, TRUE>>)
         ELSE Emit("listTimelineError", <<DEFAULT_ERROR_MESSAGE>>)

handleMentionsTimelineError(reply, errorString, responseText) ==
    LET parsedErrorResponse == parseErrorResponse(errorString, responseText)
    IN  Emit("mentionsTimelineError", <<parsedErrorResponse.message>>)

handleMentionsTimelineFinished_tagged(reply, failed, document) ==
    IF failed THEN NoEffects
    ELSE IF isArray(document)
         THEN Emit("mentionsTimelineSuccessful", <<document.value, FALSE>>)
         ELSE Emit("mentionsTimelineError",
                   <<"Piepmatz couldn't understand Twitter's response!">>)

handleMentionsTimelineFinished(reply, failed, document) ==
    IF failed THEN NoEffects
    ELSE IF isArray(document)
         THEN Emit("mentionsTimelineSuccessful", <<document.value>>)
         ELSE Emit("mentionsTimelineError",
                   <<"Piepmatz couldn't understand Twitter's response!">>)

\* emits mentionsTimelineError, as the source does
handleRetweetTimelineError(reply, errorString, responseText) ==
    LET parsedErrorResponse == parseErrorResponse(errorString, responseText)
    IN  Emit("mentionsTimelineError", <<parsedErrorResponse.message>>)

handleRetweetTimelineFinished(reply, failed, document) ==
    IF failed THEN NoEffects
    ELSE IF isArray(document)
         THEN Emit("retweetTimelineSuccessful", <<document.value>>)
         ELSE Emit("retweetTimelineError",
                   <<"Piepmatz couldn't understand Twitter's response!">>)

\* ------------------------------------------------------------ retweetsFor
\* the path of the retweets endpoint, with the :id placeholder; ".json" and
\* ":id" are single atoms of the strings of the model
API_STATUSES_RETWEETS_FOR == <<"/", "1", ".", "1", "/", "r", "/", ":id", ".json">>

\* QString::replace(before, after), before being one atom
RECURSIVE replace(_, _, _)
replace(s, before, after) ==
    IF s = <<>> THEN <<>>
    ELSE (IF Head(s) = before THEN after ELSE <<Head(s)>>) \o replace(Tail(s), before, after)

\* QUrl::path(): what precedes the query and the fragment
path(url) ==
    IF \E i \in 1..Len(url) : url[i] \in {"?", "#"}
    THEN left(url, (CHOOSE i \in 1..Len(url) :
                        url[i] \in {"?", "#"} /\ \A j \in 1..(i-1) : url[j] \notin {"?", "#"}) - 1)
    ELSE url

isDigit(ch) == ch \in {"0", "1", "2", "3", "4", "5", "6", "7", "8", "9"}

\* QRegExp("(\\d+)\\.json"): indexIn and cap(1), the leftmost match; the empty
\* string when nothing matches
statusRegex(requestPath) ==
    LET matches == { m \in (1..Len(requestPath)) \X (1..Len(requestPath)) :
                        /\ m[1] <= m[2]
                        /\ \A k \in m[1]..m[2] : isDigit(requestPath[k])
                        /\ m[2] < Len(requestPath)
                        /\ requestPath[m[2] + 1] = ".json" }
    IN  IF matches = {} THEN <<>>
        ELSE LET m == CHOOSE m \in matches : \A other \in matches : m[1] <= other[1]
             IN  SubSeq(requestPath, m[1], m[2])

retweetsFor(statusId) ==
    LET url == replace(API_STATUSES_RETWEETS_FOR, ":id", statusId)
        requestParameters ==
            ("tweet_mode" :> Str("extended")) @@ ("count" :> Str("21")) @@
            ("trim_user" :> Str("false"))
        request == SlotRequest("TwitterApi::retweetsFor", "API_STATUSES_RETWEETS_FOR",
                               requestParameters, requestParameters, {}, requestor, "get",
                               "handleRetweetsForError", "handleRetweetsForFinished", FALSE)
    IN  [request EXCEPT !.requests = <<request.requests[1] @@ [path |-> path(url)]>>]

\* handleRetweetsForError answering without the status id
handleRetweetsForError_unkeyed(reply, errorString, responseText) ==
    Emit("retweetsForError", <<<<>>, errorString>>)

handleRetweetsForError(reply, errorString, responseText) ==
    LET requestPath == reply.path
        statusId == statusRegex(requestPath)
    IN  Emit("retweetsForError", <<statusId, errorString>>)

handleRetweetsForFinished(reply, failed, document) ==
    IF failed THEN NoEffects
    ELSE LET requestPath == reply.path
             statusId == statusRegex(requestPath)
         IN  IF isArray(document)
             THEN Emit("retweetsForSuccessful", <<statusId, document.value>>)
             ELSE Emit("retweetsForError", <<statusId, DEFAULT_ERROR_MESSAGE>>)

\* ---------------------------------------- tweet, friends, directMessagesList
DefaultIncludeQueryParameters == FALSE

tweet(text, placeId) ==
    LET base == "status" :> text
        requestParameters == IF placeId # <<>> THEN base @@ ("place_id" :> placeId) ELSE base
    IN  SlotRequest("TwitterApi::tweet", "API_STATUSES_UPDATE",
                    <<>>, requestParameters, {}, requestor, "post",
                    "handleTweetError", "handleTweetFinished", FALSE)

postTweetRequest_part000(title, parameters) ==
    LET req == STANDARD_REQ("tweet")
    IN  genericRequest("API_STATUSES_UPDATE", req.title, req.successSignal, req.errorSignal,
                       FALSE, parameters, DefaultIncludeQueryParameters,
                       DefaultFinishedHandler, DefaultErrorHandler, DefaultUseSecretIdentity)

tweet_part000(text, placeId) ==
    LET base == "status" :> text
        params == IF placeId # <<>> THEN base @@ ("place_id" :> placeId) ELSE base
    IN  postTweetRequest_part000("TwitterApi::tweet", params)

friends(screenName, cursor) ==
    LET base == ("tweet_mode" :> Str("extended")) @@ ("screen_name" :> screenName) @@
                ("count" :> Str("200")) @@ ("skip_status" :> Str("true")) @@
                ("include_user_entities" :> Str("true"))
        requestParameters == IF cursor # <<>> THEN base @@ ("cursor" :> cursor) ELSE base
    IN  SlotRequest("TwitterApi::friends", "API_FRIENDS_LIST",
                    requestParameters, requestParameters, {}, requestor, "get",
                    "handleFriendsError", "handleFriendsFinished", FALSE)

\* the cursor argument is not read
friends_part000(screenName, cursor) ==
    LET params == ("tweet_mode" :> Str("extended")) @@ ("screen_name" :> screenName) @@
                  ("count" :> Str("200")) @@ ("skip_status" :> Str("true")) @@
                  ("include_user_entities" :> Str("true"))
        req == STANDARD_REQ("friends")
    IN  genericRequest("API_FRIENDS_LIST", req.title, req.successSignal, req.errorSignal,
                       TRUE, params, TRUE,
                       DefaultFinishedHandler, DefaultErrorHandler, DefaultUseSecretIdentity)

directMessagesList(cursor) ==
    LET base == "count" :> Str("50")
        requestParameters == IF cursor # <<>> THEN base @@ ("cursor" :> cursor) ELSE base
    IN  SlotRequest("TwitterApi::directMessagesList", "API_DIRECT_MESSAGES_LIST",
                    requestParameters, requestParameters, {}, requestor, "get",
                    "handleDirectMessagesListError", "handleDirectMessagesListFinished",
                    FALSE)

handleTweetError(reply, errorString, responseText) ==
    LET parsedErrorResponse == parseErrorResponse(errorString, responseText)
    IN  Emit("tweetError", <<parsedErrorResponse.message>>)

handleTweetFinished(reply, failed, document) ==
    IF failed THEN NoEffects
    ELSE IF isObject(document)
         THEN Emit("tweetSuccessful", <<document.value>>)
         ELSE Emit("tweetError", <<"Piepmatz couldn't understand Twitter's response!">>)

handleFriendsError(reply, errorString, responseText) ==
    LET parsedErrorResponse == parseErrorResponse(errorString, responseText)
    IN  Emit("friendsError", <<parsedErrorResponse.message>>)

handleFriendsFinished(reply, failed, document) ==
    IF failed THEN NoEffects
    ELSE IF isObject(document)
         THEN Emit("friendsSuccessful", <<document.value>>)
         ELSE Emit("friendsError", <<"Piepmatz couldn't understand Twitter's response!">>)

handleDirectMessagesListError(reply, errorString, responseText) ==
    LET parsedErrorResponse == parseErrorResponse(errorString, responseText)
    IN  Emit("directMessagesListError", <<parsedErrorResponse.message>>)

handleDirectMessagesListFinished(reply, failed, document) ==
    IF failed THEN NoEffects
    ELSE IF isObject(document)
         THEN Emit("directMessagesListSuccessful", <<document.value>>)
         ELSE Emit("directMessagesListError", <<DEFAULT_ERROR_MESSAGE>>)

\* ------------------------------------------------------------- transport
\* What the transport can answer.  A failed exchange carries the transport's
\* error string and an error body; a completed one a content type and a body.
ContentType(isValid, textHtml, charsets) ==
    [isValid |-> isValid, textHtml |-> textHtml, charsets |-> charsets]

NoResponse ==
    [errorString |-> "", contentTypeHeader |-> ContentType(FALSE, FALSE, <<>>),
     document |-> InvalidDocument, undefined |-> "fault"]

ErrorElements ==
    { [code |-> 136, message |-> "You have been blocked"],
      [code |-> 34, message |-> "Sorry, that page does not exist"] }

ErrorArraysUpTo(n) == UNION { [1..k -> ErrorElements] : k \in 0..n }

\* error bodies whose "errors" array has at most n elements
ErrorDocuments(n) ==
    { InvalidDocument,
      ObjectDocument("errors" :> [type |-> "string", value |-> "unavailable"]) }
    \cup { ObjectDocument("errors" :> ArrayDocument(a)) : a \in ErrorArraysUpTo(n) }

FailureResponses(n) ==
    { [NoResponse EXCEPT !.errorString = "Error transferring - server replied",
                         !.document = d] : d \in ErrorDocuments(n) }

JsonResponse(d) ==
    [NoResponse EXCEPT !.contentTypeHeader = ContentType(TRUE, FALSE, <<>>),
                       !.document = d]

HtmlResponse(contentTypeHeader, og, nodes, undefined) ==
    [NoResponse EXCEPT !.contentTypeHeader = contentTypeHeader,
                       !.document = [type |-> "html", value |-> [og |-> og, nodes |-> nodes]],
                       !.undefined = undefined]

aTweet(idStr) == [id_str |-> idStr, full_text |-> "hello"]
aReshare(idStr, ofIdStr) == [id_str |-> idStr, retweeted_status |-> [id_str |-> ofIdStr]]
aNode(classList, dataTweetId) == [classList |-> classList, dataTweetId |-> dataTweetId]

ShowStatusResponses(reply) ==
    { JsonResponse(InvalidDocument),
      JsonResponse(ArrayDocument(<<>>)),
      JsonResponse(ObjectDocument(aTweet(reply.parameters["id"]))) }

UserTimelineResponses ==
    { JsonResponse(InvalidDocument),
      JsonResponse(ObjectDocument(<<>>)),
      JsonResponse(ArrayDocument(<<aTweet("7")>>)) }

FollowKeys == {"following", "protected"}

\* user objects: any subset of the keys, any boolean values
UserObjects(keys) == UNION { [present -> BOOLEAN] : present \in SUBSET keys }

FollowResponses(keys) ==
    { JsonResponse(InvalidDocument), JsonResponse(ArrayDocument(<<>>)) }
    \cup { JsonResponse(ObjectDocument(u)) : u \in UserObjects(keys) }

SearchEntries == { aTweet("1"), aTweet("2"), aReshare("3", "1"), aReshare("4", "1") }

SearchTweetsResponses(n) ==
    { JsonResponse(InvalidDocument), JsonResponse(ArrayDocument(<<>>)),
      JsonResponse(ObjectDocument(<<>>)) }
    \cup { JsonResponse(ObjectDocument("statuses" :> ArrayDocument(a))) :
             a \in UNION { [1..k -> SearchEntries] : k \in 0..n } }

FewSearchTweetsResponses ==
    { JsonResponse(InvalidDocument),
      JsonResponse(ObjectDocument(
          "statuses" :> ArrayDocument(<<aTweet("1"), aReshare("3", "1")>>))) }

SearchUsersResponses ==
    { JsonResponse(ObjectDocument(<<>>)),
      JsonResponse(ArrayDocument(<<[screen_name |-> "alice"]>>)) }

OpenGraphResponses ==
    { HtmlResponse(ContentType(FALSE, FALSE, <<>>), <<>>, <<>>, "fault"),
      HtmlResponse(ContentType(TRUE, FALSE, <<>>), <<>>, <<>>, "fault"),
      HtmlResponse(ContentType(TRUE, TRUE, <<"utf-8">>), <<>>, <<>>, "fault"),
      HtmlResponse(ContentType(TRUE, TRUE, <<>>),
                   ("image" :> "https://example.org/i.png") @@
                   ("url" :> "https://example.org/canonical"), <<>>, "fault"),
      HtmlResponse(ContentType(TRUE, TRUE, <<"x-unknown">>),
                   "title" :> "A title", <<>>, "fault"),
      HtmlResponse(ContentType(TRUE, TRUE, <<"x-unknown">>),
                   "title" :> "A title", <<>>, "continue") }

SingleTweetResponses ==
    { HtmlResponse(ContentType(TRUE, FALSE, <<>>), <<>>, <<>>, "fault"),
      HtmlResponse(ContentType(TRUE, TRUE, <<>>), <<>>,
                   <<aNode({"tweet", "promoted-tweet"}, "44")>>, "fault"),
      HtmlResponse(ContentType(TRUE, TRUE, <<>>), <<>>,
                   <<aNode({"tweet"}, "43"), aNode({"tweet", "promoted-tweet"}, "44")>>,
                   "fault") }

\* the answers a completed exchange can carry, by endpoint
SuccessResponses(reply) ==
    CASE reply.url = "API_STATUSES_SHOW" -> ShowStatusResponses(reply)
      [] reply.url = "API_STATUSES_USER_TIMELINE" -> UserTimelineResponses
      [] reply.url = "API_FRIENDSHIPS_CREATE" -> FollowResponses({"following"})
      [] reply.url = "API_FRIENDSHIPS_DESTROY" -> FollowResponses({"following"})
      [] reply.url = "API_SEARCH_TWEETS" -> FewSearchTweetsResponses
      [] reply.url = "API_SEARCH_USERS" -> SearchUsersResponses
      [] reply.title = "TwitterApi::getOpenGraph" -> OpenGraphResponses
      [] reply.title = "TwitterApi::getSingleTweet" -> SingleTweetResponses
      [] OTHER -> { JsonResponse(InvalidDocument) }

\* ------------------------------------------------------- signal delivery
\* the slot connected to QNetworkReply::error for this reply
errorHandler(reply, errorString, responseText) ==
    CASE reply.errorHandler = "handleShowStatusError" ->
            IF unit = TWITTERAPI_CPP
            THEN handleShowStatusError(reply, errorString, responseText)
            ELSE handleShowStatusError_part000(reply, errorString, responseText)
      [] reply.errorHandler = "handleUserTimelineError" ->
            IF unit = TWITTERAPI_CPP
            THEN handleUserTimelineError(reply, errorString, responseText)
            ELSE handleUserTimelineError_part000(reply, errorString, responseText)
      [] reply.errorHandler = "genericHandlerFailure" ->
            genericHandlerFailure(reply, errorString, responseText)
      [] reply.errorHandler = "handleFollowUserError" ->
            handleFollowUserError(reply, errorString, responseText)
      [] reply.errorHandler = "handleUnfollowUserError" ->
            handleUnfollowUserError(reply, errorString, responseText)
      [] reply.errorHandler = "handleSearchTweetsError" ->
            handleSearchTweetsError(reply, errorString, responseText)
      [] reply.errorHandler = "handleSearchUsersError" ->
            handleSearchUsersError(reply, errorString, responseText)
      [] reply.errorHandler = "handleGetOpenGraphError" ->
            handleGetOpenGraphError(reply, errorString, responseText)
      [] reply.errorHandler = "handleGetSingleTweetError" ->
            handleGetSingleTweetError(reply, errorString, responseText)
      [] reply.errorHandler = "handleRetweetsForError" ->
            handleRetweetsForError(reply, errorString, responseText)
      [] reply.errorHandler = "handleTweetError" ->
            handleTweetError(reply, errorString, responseText)
      [] reply.errorHandler = "handleFriendsError" ->
            handleFriendsError(reply, errorString, responseText)
      [] reply.errorHandler = "handleDirectMessagesListError" ->
            handleDirectMessagesListError(reply, errorString, responseText)
      [] reply.errorHandler = "handleHomeTimelineError" ->
            handleHomeTimelineError(reply, errorString, responseText)
      [] reply.errorHandler = "handleListTimelineError" ->
            handleListTimelineError(reply, errorString, responseText)
      [] reply.errorHandler = "handleMentionsTimelineError" ->
            handleMentionsTimelineError(reply, errorString, responseText)
      [] reply.errorHandler = "handleRetweetTimelineError" ->
            handleRetweetTimelineError(reply, errorString, responseText)
      [] OTHER -> NoEffects

\* the slot connected to QNetworkReply::finished for this reply
finishedHandler(reply, failed, response) ==
    CASE reply.finishedHandler = "handleShowStatusFinished" ->
            handleShowStatusFinished(reply, failed, response.document)
      [] reply.finishedHandler = "handleUserTimelineFinished" ->
            handleUserTimelineFinished(reply, failed, response.document)
      [] reply.finishedHandler = "genericHandlerFinished" ->
            IF SignalShape(reply.successSignal) = "list"
            THEN genericHandlerFinished_list(reply, failed, response.document)
            ELSE genericHandlerFinished_map(reply, failed, response.document)
      [] reply.finishedHandler = "handleFollowUserFinished" ->
            handleFollowUserFinished(reply, failed, response.document)
      [] reply.finishedHandler = "handleUnfollowUserFinished" ->
            handleUnfollowUserFinished(reply, failed, response.document)
      [] reply.finishedHandler = "handleSearchTweetsFinished" ->
            handleSearchTweetsFinished(reply, failed, response.document)
      [] reply.finishedHandler = "handleSearchUsersFinished" ->
            handleSearchUsersFinished(reply, failed, response.document)
      [] reply.finishedHandler = "handleGetOpenGraphFinished" ->
            handleGetOpenGraphFinished(reply, failed, response)
      [] reply.finishedHandler = "handleGetSingleTweetFinished" ->
            handleGetSingleTweetFinished(reply, failed, response)
      [] reply.finishedHandler = "handleRetweetsForFinished" ->
            handleRetweetsForFinished(reply, failed, response.document)
      [] reply.finishedHandler = "handleTweetFinished" ->
            handleTweetFinished(reply, failed, response.document)
      [] reply.finishedHandler = "handleFriendsFinished" ->
            handleFriendsFinished(reply, failed, response.document)
      [] reply.finishedHandler = "handleDirectMessagesListFinished" ->
            handleDirectMessagesListFinished(reply, failed, response.document)
      [] reply.finishedHandler = "handleHomeTimelineFinished" ->
            IF unit = TWITTERAPI_CPP
            THEN handleHomeTimelineFinished(reply, failed, response.document)
            ELSE handleHomeTimelineFinished_part000(reply, failed, response.document)
      [] reply.finishedHandler = "handleHomeTimelineLoadMoreFinished" ->
            IF unit = TWITTERAPI_CPP
            THEN handleHomeTimelineLoadMoreFinished(reply, failed, response.document)
            ELSE handleHomeTimelineLoadMoreFinished_part000(reply, failed, response.document)
      [] reply.finishedHandler = "handleListTimelineFinished" ->
            handleListTimelineFinished(reply, failed, response.document)
      [] reply.finishedHandler = "handleListTimelineLoadMoreFinished" ->
            handleListTimelineLoadMoreFinished(reply, failed, response.document)
      [] reply.finishedHandler = "handleMentionsTimelineFinished" ->
            handleMentionsTimelineFinished(reply, failed, response.document)
      [] reply.finishedHandler = "handleRetweetTimelineFinished" ->
            handleRetweetTimelineFinished(reply, failed, response.document)
      [] OTHER -> NoEffects

\* Apply dropping the alternate identity once a request went out under it
Apply_forgetful(effects, call, from, slot, repliesNow) ==
    /\ Len(repliesNow) + Len(effects.requests) <= MaxReplies
    /\ emitted' = emitted \o
            [i \in 1..Len(effects.emit) |->
                effects.emit[i] @@ [call |-> call, reply |-> from, slot |-> slot]]
    /\ replies' = repliesNow \o
            [i \in 1..Len(effects.requests) |->
                effects.requests[i] @@
                [call |-> call, parent |-> from, phase |-> "sent", received |-> NoResponse]]
    /\ conversations' = conversations \o
            [i \in 1..Len(effects.sessions) |->
                buildConversation(effects.sessions[i] @@ [call |-> call, reply |-> from])]
    /\ crashed' = effects.fault
    /\ secretIdentityRequestor' =
            IF \E i \in 1..Len(effects.requests) :
                  effects.requests[i].usedRequestor = secretIdentityRequestor
            THEN nullptr
            ELSE secretIdentityRequestor
    /\ UNCHANGED <<unit, requestor, manager>>

\* The state after a function ran: its signals reach the caller, its requests
\* are in flight.  call is the caller's invocation the work belongs to, from
\* the reply whose slot ran (0 when the caller itself ran the function) and
\* slot the signal of the reply that ran it.
Apply(effects, call, from, slot, repliesNow) ==
    /\ Len(repliesNow) + Len(effects.requests) <= MaxReplies
    /\ emitted' = emitted \o
            [i \in 1..Len(effects.emit) |->
                effects.emit[i] @@ [call |-> call, reply |-> from, slot |-> slot]]
    /\ replies' = repliesNow \o
            [i \in 1..Len(effects.requests) |->
                effects.requests[i] @@
                [call |-> call, parent |-> from, phase |-> "sent", received |-> NoResponse]]
    /\ conversations' = conversations \o
            [i \in 1..Len(effects.sessions) |->
                buildConversation(effects.sessions[i] @@ [call |-> call, reply |-> from])]
    /\ crashed' = effects.fault
    /\ UNCHANGED <<unit, requestor, manager, secretIdentityRequestor>>

Invoke(operation, args, effects) ==
    /\ ~crashed
    /\ Len(calls) < MaxCalls
    /\ calls' = Append(calls, [operation |-> operation, args |-> args])
    /\ Apply(effects, Len(calls) + 1, 0, "call", replies)

\* ------------------------------------------------------------------ inputs
StatusIds == { <<"1">>, <<"2", "?", "s">> }
MaxIds == { <<>>, <<"9", "9">> }
Texts == { <<"h", "i">> }
PlaceIds == { <<>>, <<"p", "1">> }
Cursors == { <<>>, <<"1", "0">> }
RetweetIds == { <<"4", "2">>, <<"7">>, <<"7", "a", "3">>, <<"a", "?", "5">> }
ListIds == { <<"5">> }
QueriedIds == { <<"1">>, <<"2", "?", "s">>, <<"?", "7">>, <<"3", "?", "4", "?", "5">> }
ScreenNames == { <<"alice">> }
Queries == { <<>>, <<"cats">> }
Addresses == { "https://example.org/page", "https://twitter.com/alice/status/42" }

\* ----------------------------------------------------------------- actions
Init ==
    /\ unit \in {TWITTERAPI_CPP, PART_000}
    /\ requestor = "requestor"
    /\ manager = "manager"
    /\ secretIdentityRequestor \in {nullptr, "secretIdentityRequestor"}
    /\ replies = <<>>
    /\ emitted = <<>>
    /\ calls = <<>>
    /\ conversations = <<>>
    /\ crashed = FALSE

CallShowStatus(statusId, useSecretIdentity) ==
    Invoke("showStatus", <<statusId, useSecretIdentity>>,
           IF unit = TWITTERAPI_CPP
           THEN showStatus(statusId, useSecretIdentity)
           ELSE showStatus_part000(statusId, useSecretIdentity))

CallUserTimeline(screenName, useSecretIdentity) ==
    Invoke("userTimeline", <<screenName, useSecretIdentity>>,
           IF unit = TWITTERAPI_CPP
           THEN userTimeline(screenName, useSecretIdentity)
           ELSE userTimeline_part000(screenName, useSecretIdentity))

CallFollowUser(screenName) ==
    Invoke("followUser", <<screenName>>,
           IF unit = TWITTERAPI_CPP
           THEN followUser(screenName)
           ELSE followUser_part000(screenName))

CallUnfollowUser(screenName) ==
    Invoke("unfollowUser", <<screenName>>,
           IF unit = TWITTERAPI_CPP
           THEN unfollowUser(screenName)
           ELSE unfollowUser_part000(screenName))

CallSearchTweets(query) == Invoke("searchTweets", <<query>>, searchTweets(query))

CallSearchUsers(query) == Invoke("searchUsers", <<query>>, searchUsers(query))

CallGetOpenGraph(address) == Invoke("getOpenGraph", <<address>>, getOpenGraph(address))

CallGetSingleTweet(tweetId, address) ==
    Invoke("getSingleTweet", <<tweetId, address>>, getSingleTweet(tweetId, address))

CallRetweetsFor(statusId) == Invoke("retweetsFor", <<statusId>>, retweetsFor(statusId))

CallTweet(text, placeId) ==
    Invoke("tweet", <<text, placeId>>,
           IF unit = TWITTERAPI_CPP THEN tweet(text, placeId) ELSE tweet_part000(text, placeId))

CallFriends(screenName, cursor) ==
    Invoke("friends", <<screenName, cursor>>,
           IF unit = TWITTERAPI_CPP THEN friends(screenName, cursor)
           ELSE friends_part000(screenName, cursor))

CallDirectMessagesList(cursor) ==
    Invoke("directMessagesList", <<cursor>>, directMessagesList(cursor))

CallHomeTimeline(maxId) ==
    Invoke("homeTimeline", <<maxId>>,
           IF unit = TWITTERAPI_CPP THEN homeTimeline(maxId) ELSE homeTimeline_part000(maxId))

CallListTimeline(listId, maxId) ==
    Invoke("listTimeline", <<listId, maxId>>, listTimeline(listId, maxId))

CallMentionsTimeline ==
    Invoke("mentionsTimeline", <<>>,
           IF unit = TWITTERAPI_CPP THEN mentionsTimeline ELSE mentionsTimeline_part000)

CallRetweetTimeline ==
    Invoke("retweetTimeline", <<>>,
           IF unit = TWITTERAPI_CPP THEN retweetTimeline ELSE retweetTimeline_part000)

\* QNetworkReply::error is raised for reply r
replyError(r, response) ==
    /\ ~crashed
    /\ replies[r].phase = "sent"
    /\ Apply(errorHandler(replies[r], response.errorString, response.document),
             replies[r].call, r, "error",
             [replies EXCEPT ![r].phase = "error", ![r].received = response])
    /\ UNCHANGED calls

\* QNetworkReply::finished is raised for reply r: after error for a failed
\* exchange, on its own for a completed one.  The phase of a reply whose slot
\* faulted is "faulted": the slot never returned.
replyFinished(r, response) ==
    /\ ~crashed
    /\ replies[r].phase \in {"sent", "error"}
    /\ LET effects == finishedHandler(replies[r], replies[r].phase = "error", response)
       IN  Apply(effects, replies[r].call, r, "finished",
                 [replies EXCEPT ![r].phase = IF effects.fault THEN "faulted"
                                                ELSE "finished",
                                 ![r].received = response])
    /\ UNCHANGED calls

\* the answers a completed exchange can carry in the specification that
\* draws them from the set named answers
\* a failure of the transport itself, without a body
TransportFailures == { [NoResponse EXCEPT !.errorString = "Host unreachable"] }

\* a list, or a body that is no JSON
ListAnswers ==
    { JsonResponse(InvalidDocument), JsonResponse(ArrayDocument(<<aTweet("7")>>)) }

\* every JSON shape a body can decode into, whatever the endpoint expects
JsonShapes(reply) ==
    SuccessResponses(reply) \cup
    { JsonResponse(InvalidDocument),
      JsonResponse(ObjectDocument([id_str |-> "7"])),
      JsonResponse(ArrayDocument(<<>>)),
      JsonResponse(ArrayDocument(<<aTweet("7")>>)),
      JsonResponse(ArrayDocument(<<aTweet("8"), aTweet("7")>>)) }

\* link-preview documents: content types crossed with the og tags found
OpenGraphTags == {"url", "image", "description", "title"}
OpenGraphContent(tag) ==
    CASE tag = "url" -> "https://example.org/canonical"
      [] tag = "image" -> "https://example.org/i.png"
      [] tag = "description" -> "A description"
      [] OTHER -> "A title"
OpenGraphDocuments ==
    { HtmlResponse(contentTypeHeader, [tag \in found |-> OpenGraphContent(tag)], <<>>, undefined) :
        contentTypeHeader \in { ContentType(FALSE, FALSE, <<>>),
                                ContentType(TRUE, FALSE, <<>>),
                                ContentType(TRUE, TRUE, <<>>),
                                ContentType(TRUE, TRUE, <<"iso-8859-1">>),
                                ContentType(TRUE, TRUE, <<"x-unknown">>) },
        found \in SUBSET OpenGraphTags,
        undefined \in {"fault", "continue"} }

\* the charset tokens a content-type header can declare
CharsetLists ==
    { <<>>, <<"utf-8">>, <<"Utf-8">>, <<"iso-8859-1">>, <<"x-unknown">>,
      <<"iso-8859-1", "x-unknown">>, <<"x-unknown", "iso-8859-1">>,
      <<"x-unknown", "Utf-8">>, <<"utf-8", "x-unknown">> }

\* link-preview documents under every declaration of charsets
CharsetDocuments ==
    { HtmlResponse(ContentType(TRUE, TRUE, charsets),
                   [tag \in found |-> OpenGraphContent(tag)], <<>>, undefined) :
        charsets \in CharsetLists,
        found \in { {}, {"title"} },
        undefined \in {"fault", "continue"} }

\* conversation pages: content types crossed with the tweet nodes found
SingleTweetDocuments ==
    { HtmlResponse(contentTypeHeader, <<>>, nodes, "fault") :
        contentTypeHeader \in { ContentType(FALSE, FALSE, <<>>),
                                ContentType(TRUE, FALSE, <<>>),
                                ContentType(TRUE, TRUE, <<>>) },
        nodes \in { <<>>, <<aNode({"tweet"}, "43")>>,
                    <<aNode({"tweet"}, "43"), aNode({"tweet", "promoted-tweet"}, "44")>> } }

\* conversation pages with up to three related tweets
ConversationDocuments ==
    { HtmlResponse(contentTypeHeader, <<>>, nodes, "fault") :
        contentTypeHeader \in { ContentType(TRUE, FALSE, <<>>),
                                ContentType(TRUE, TRUE, <<>>) },
        nodes \in { <<>>,
                    <<aNode({"tweet"}, "43"), aNode({"tweet", "promoted-tweet"}, "44"),
                      aNode({"tweet"}, "45")>>,
                    <<aNode({"tweet"}, "43"), aNode({"tweet"}, "45"),
                      aNode({"tweet"}, "46")>> } }

\* the elements a conversation page is built from: tweets, a tweet without an
\* identifier, a promoted tweet, an element of another class
DiscoveryNodes ==
    { aNode({"tweet"}, "43"), aNode({"tweet", "original-tweet"}, "45"),
      aNode({"tweet"}, ""), aNode({"tweet", "promoted-tweet"}, "44"),
      aNode({"stream-item"}, "47") }

\* the element lists of at most n elements
NodeLists(n) == UNION { [1..len -> DiscoveryNodes] : len \in 0..n }

\* HTML conversation pages with at most n elements
DiscoveryDocuments(n) ==
    { HtmlResponse(ContentType(TRUE, TRUE, <<>>), <<>>, nodes, "fault") :
        nodes \in NodeLists(n) }

Responses(answers, reply) ==
    CASE answers = "search" /\ reply.url = "API_SEARCH_TWEETS" ->
            SearchTweetsResponses(MaxStatuses)
      [] answers = "follow" /\ reply.url \in {"API_FRIENDSHIPS_CREATE", "API_FRIENDSHIPS_DESTROY"} ->
            FollowResponses(FollowKeys)
      [] answers = "lists" -> ListAnswers
      [] answers = "charsets" -> CharsetDocuments
      [] answers = "conversation" -> ConversationDocuments
      [] answers = "discovery" -> DiscoveryDocuments(MaxNodes)
      [] answers = "shapes" -> JsonShapes(reply)
      [] answers = "scrape" /\ reply.title = "TwitterApi::getOpenGraph" -> OpenGraphDocuments
      [] answers = "scrape" /\ reply.title = "TwitterApi::getSingleTweet" -> SingleTweetDocuments
      [] OTHER -> SuccessResponses(reply)

\* the responses the finished signal of reply r can come with
FinishedResponses(r, answers) ==
    IF replies[r].phase = "error" THEN {replies[r].received}
    ELSE Responses(answers, replies[r])

\* the transport answers some reply
Transport(failures, answers) ==
    \/ \E r \in 1..Len(replies) : \E response \in failures :
          replyError(r, response)
    \/ \E r \in 1..Len(replies) : \E response \in FinishedResponses(r, answers) :
          replyFinished(r, response)

\* ------------------------------------------- identity fallback in isolation
NextFallback ==
    \/ \E statusId \in StatusIds, useSecretIdentity \in BOOLEAN :
          CallShowStatus(statusId, useSecretIdentity)
    \/ \E screenName \in ScreenNames, useSecretIdentity \in BOOLEAN :
          CallUserTimeline(screenName, useSecretIdentity)
    \/ Transport(FailureResponses(MaxErrors), "few")

SpecFallback == Init /\ [][NextFallback]_vars

\* ------------------------------------------------------ every operation
Next ==
    \/ \E statusId \in StatusIds : CallShowStatus(statusId, FALSE)
    \/ \E screenName \in ScreenNames : CallUserTimeline(screenName, FALSE)
    \/ \E screenName \in ScreenNames : CallFollowUser(screenName)
    \/ \E screenName \in ScreenNames : CallUnfollowUser(screenName)
    \/ \E query \in Queries : CallSearchTweets(query)
    \/ \E query \in Queries : CallSearchUsers(query)
    \/ \E address \in Addresses : CallGetOpenGraph(address)
    \/ \E address \in Addresses : CallGetSingleTweet("42", address)
    \/ Transport(FailureResponses(MaxErrors), "few")

Spec == Init /\ [][Next]_vars

\* --------------------------------------------------- one search at a time
NextSearch ==
    \/ \E query \in Queries : calls = <<>> /\ CallSearchTweets(query)
    \/ \E query \in Queries : calls = <<>> /\ CallSearchUsers(query)
    \/ Transport(FailureResponses(MaxErrors), "search")

SpecSearch == Init /\ [][NextSearch]_vars

\* ------------------------------------------- one follow or unfollow at a time
NextFollow ==
    \/ \E screenName \in ScreenNames : calls = <<>> /\ CallFollowUser(screenName)
    \/ \E screenName \in ScreenNames : calls = <<>> /\ CallUnfollowUser(screenName)
    \/ Transport(FailureResponses(MaxErrors), "follow")

SpecFollow == Init /\ [][NextFollow]_vars

\* ----------------------------- one JSON operation at a time, any body shape
NextJson ==
    \/ \E statusId \in StatusIds : calls = <<>> /\ CallShowStatus(statusId, FALSE)
    \/ \E screenName \in ScreenNames : calls = <<>> /\ CallUserTimeline(screenName, FALSE)
    \/ \E screenName \in ScreenNames : calls = <<>> /\ CallFollowUser(screenName)
    \/ \E screenName \in ScreenNames : calls = <<>> /\ CallUnfollowUser(screenName)
    \/ \E query \in Queries : calls = <<>> /\ CallSearchTweets(query)
    \/ \E query \in Queries : calls = <<>> /\ CallSearchUsers(query)
    \/ \E maxId \in MaxIds : calls = <<>> /\ CallHomeTimeline(maxId)
    \/ \E listId \in ListIds, maxId \in MaxIds : calls = <<>> /\ CallListTimeline(listId, maxId)
    \/ calls = <<>> /\ CallMentionsTimeline
    \/ calls = <<>> /\ CallRetweetTimeline
    \/ Transport(FailureResponses(MaxErrors), "shapes")

SpecJson == Init /\ [][NextJson]_vars

\* -------------------------------------- one scraping operation at a time
NextScrape ==
    \/ \E address \in Addresses : calls = <<>> /\ CallGetOpenGraph(address)
    \/ \E address \in Addresses : calls = <<>> /\ CallGetSingleTweet("42", address)
    \/ Transport(FailureResponses(MaxErrors), "scrape")

SpecScrape == Init /\ [][NextScrape]_vars

\* ------------------------------------------ concurrent retweetsFor calls
NextRetweets ==
    \/ \E statusId \in RetweetIds : CallRetweetsFor(statusId)
    \/ Transport(TransportFailures, "lists")

SpecRetweets == Init /\ [][NextRetweets]_vars

\* ------------------------------- one call with an optional argument at a time
NextOptional ==
    \/ \E text \in Texts, placeId \in PlaceIds : calls = <<>> /\ CallTweet(text, placeId)
    \/ \E screenName \in ScreenNames, cursor \in Cursors :
          calls = <<>> /\ CallFriends(screenName, cursor)
    \/ \E cursor \in Cursors : calls = <<>> /\ CallDirectMessagesList(cursor)
    \/ \E maxId \in MaxIds : calls = <<>> /\ CallHomeTimeline(maxId)
    \/ \E listId \in ListIds, maxId \in MaxIds : calls = <<>> /\ CallListTimeline(listId, maxId)
    \/ Transport(TransportFailures, "shapes")

SpecOptional == Init /\ [][NextOptional]_vars

\* ------------------- one call at a time, under either identity where it can be
NextIdentity ==
    \/ \E statusId \in StatusIds, useSecretIdentity \in BOOLEAN :
          calls = <<>> /\ CallShowStatus(statusId, useSecretIdentity)
    \/ \E screenName \in ScreenNames, useSecretIdentity \in BOOLEAN :
          calls = <<>> /\ CallUserTimeline(screenName, useSecretIdentity)
    \/ \E screenName \in ScreenNames : calls = <<>> /\ CallFollowUser(screenName)
    \/ \E query \in Queries : calls = <<>> /\ CallSearchUsers(query)
    \/ \E maxId \in MaxIds : calls = <<>> /\ CallHomeTimeline(maxId)
    \/ \E address \in Addresses : calls = <<>> /\ CallGetOpenGraph(address)
    \/ Transport(FailureResponses(MaxErrors), "few")

SpecIdentity == Init /\ [][NextIdentity]_vars

\* --------------------------------------- timeline pages fetched concurrently
NextPages ==
    \/ \E maxId \in MaxIds : CallHomeTimeline(maxId)
    \/ \E listId \in ListIds, maxId \in MaxIds : CallListTimeline(listId, maxId)
    \/ Transport(TransportFailures, "lists")

SpecPages == Init /\ [][NextPages]_vars

\* -------------------------------- one link preview, any charset declaration
NextCharset ==
    \/ \E address \in Addresses : calls = <<>> /\ CallGetOpenGraph(address)
    \/ Transport(TransportFailures, "charsets")

SpecCharset == Init /\ [][NextCharset]_vars

\* ------------------------------------------------- conversation threads
\* TweetConversationHandler: the single-message fetch of related tweet k of
\* session s ends, with the tweet (fetched) or without it.  When it was the last
\* one pending, the handler emits tweetConversationCompleted, whose slot
\* handleTweetConversationReceived runs at once.
fetchEnded(s, k, fetched) ==
    /\ ~crashed
    /\ k \in conversations[s].pending
    /\ LET session == conversations[s]
           pending == session.pending \ {k}
           receivedTweets == IF fetched
                             THEN Append(session.receivedTweets, session.relatedTweets[k])
                             ELSE session.receivedTweets
           effects == IF pending = {}
                      THEN handleTweetConversationReceived(session.tweetId, receivedTweets)
                      ELSE NoEffects
       IN  /\ conversations' =
                 [conversations EXCEPT ![s] = [session EXCEPT !.pending = pending,
                                                              !.receivedTweets = receivedTweets,
                                                              !.completed = pending = {}]]
           /\ emitted' = emitted \o
                 [i \in 1..Len(effects.emit) |->
                     effects.emit[i] @@ [call |-> session.call, reply |-> session.reply,
                                         slot |-> "tweetConversationCompleted"]]
    /\ UNCHANGED <<unit, requestor, manager, secretIdentityRequestor, replies, calls, crashed>>

\* the fan-out fetches end in any order, each with or without its tweet
FanOut ==
    \E s \in 1..Len(conversations) : \E k \in conversations[s].pending :
        \E fetched \in BOOLEAN : fetchEnded(s, k, fetched)

NextConversation ==
    \/ \E address \in Addresses : CallGetSingleTweet("42", address)
    \/ Transport(TransportFailures, "conversation")
    \/ FanOut

SpecConversation == Init /\ [][NextConversation]_vars

\* ------------------------------------------ one conversation page at a time
NextDiscovery ==
    \/ \E address \in Addresses : calls = <<>> /\ CallGetSingleTweet("42", address)
    \/ Transport(TransportFailures, "discovery")
    \/ FanOut

SpecDiscovery == Init /\ [][NextDiscovery]_vars

\* ------------------------------------- concurrent previews of different pages
NextPreviews ==
    \/ \E address \in Addresses :
          /\ \A call \in 1..Len(calls) : calls[call].args # <<address>>
          /\ CallGetOpenGraph(address)
    \/ Transport(TransportFailures, "few")

SpecPreviews == Init /\ [][NextPreviews]_vars

\* ------------------------- one read at a time, error bodies of several errors
NextErrors ==
    \/ \E statusId \in StatusIds, useSecretIdentity \in BOOLEAN :
          calls = <<>> /\ CallShowStatus(statusId, useSecretIdentity)
    \/ \E screenName \in ScreenNames, useSecretIdentity \in BOOLEAN :
          calls = <<>> /\ CallUserTimeline(screenName, useSecretIdentity)
    \/ Transport(FailureResponses(MaxErrors + 1), "few")

SpecErrors == Init /\ [][NextErrors]_vars

\* --------------------------------------- every operation, one call at a time
NextEvery ==
    \/ \E statusId \in StatusIds, useSecretIdentity \in BOOLEAN :
          calls = <<>> /\ CallShowStatus(statusId, useSecretIdentity)
    \/ \E screenName \in ScreenNames, useSecretIdentity \in BOOLEAN :
          calls = <<>> /\ CallUserTimeline(screenName, useSecretIdentity)
    \/ \E screenName \in ScreenNames : calls = <<>> /\ CallFollowUser(screenName)
    \/ \E screenName \in ScreenNames : calls = <<>> /\ CallUnfollowUser(screenName)
    \/ \E query \in Queries : calls = <<>> /\ CallSearchTweets(query)
    \/ \E query \in Queries : calls = <<>> /\ CallSearchUsers(query)
    \/ \E address \in Addresses : calls = <<>> /\ CallGetOpenGraph(address)
    \/ \E address \in Addresses : calls = <<>> /\ CallGetSingleTweet("42", address)
    \/ \E statusId \in RetweetIds : calls = <<>> /\ CallRetweetsFor(statusId)
    \/ \E text \in Texts, placeId \in PlaceIds : calls = <<>> /\ CallTweet(text, placeId)
    \/ \E screenName \in ScreenNames, cursor \in Cursors :
          calls = <<>> /\ CallFriends(screenName, cursor)
    \/ \E cursor \in Cursors : calls = <<>> /\ CallDirectMessagesList(cursor)
    \/ \E maxId \in MaxIds : calls = <<>> /\ CallHomeTimeline(maxId)
    \/ \E listId \in ListIds, maxId \in MaxIds : calls = <<>> /\ CallListTimeline(listId, maxId)
    \/ calls = <<>> /\ CallMentionsTimeline
    \/ calls = <<>> /\ CallRetweetTimeline
    \/ Transport(FailureResponses(MaxErrors), "few")

SpecEvery == Init /\ [][NextEvery]_vars

\* ------------------------- one showStatus at a time, ids with a query string
NextSanitize ==
    \/ \E statusId \in QueriedIds, useSecretIdentity \in BOOLEAN :
          calls = <<>> /\ CallShowStatus(statusId, useSecretIdentity)
    \/ Transport(FailureResponses(MaxErrors), "few")

SpecSanitize == Init /\ [][NextSanitize]_vars

\* ------------------------------------------------------ reading a history
RepliesOf(call) == { r \in 1..Len(replies) : replies[r].call = call }
EmittedBy(r) == { i \in 1..Len(emitted) : emitted[i].reply = r }
EmittedFor(call) == { i \in 1..Len(emitted) : emitted[i].call = call }

\* reply r was answered with a failure / its finished signal was handled
Failed(r) == replies[r].phase # "sent" /\ replies[r].received.errorString # ""
Done(r) == replies[r].phase = "finished"

\* the failure of reply r carried remote error code 136
Blocked(r) ==
    /\ Failed(r)
    /\ codeIs136(parseErrorResponse(replies[r].received.errorString,
                                    replies[r].received.document))

\* reply r was issued under the primary / the alternate identity
Primary(r) == replies[r].usedRequestor = requestor
Alternate(r) ==
    secretIdentityRequestor # nullptr /\ replies[r].usedRequestor = secretIdentityRequestor

\* reply r was dispatched by the error slot of another reply
Redispatch(r) == replies[r].parent # 0

IsShowStatus(r) == replies[r].url = "API_STATUSES_SHOW"
IsUserTimeline(r) == replies[r].url = "API_STATUSES_USER_TIMELINE"

\* ---------------------------------------------------------------- claims
\* C1: a single showStatus or userTimeline call causes at most one re-dispatch
\* under the alternate identity; the failure of an exchange that was itself
\* issued as a fallback attempt never triggers another re-dispatch.
C1_AtMostOneRedispatch ==
    \A call \in 1..Len(calls) :
        /\ Cardinality({ r \in RepliesOf(call) : Redispatch(r) }) <= 1
        /\ \A r \in RepliesOf(call) :
              Redispatch(r) => ~Redispatch(replies[r].parent)

\* C2: a showStatus exchange under the primary identity that failed with code
\* 136 while the alternate identity is configured has exactly one retried
\* exchange, under the alternate identity; nothing was notified for the
\* original failure; the call has at most one outcome, and once its exchanges
\* are done exactly one, the retried exchange's.
C2_OneRetryOneOutcome ==
    \A r \in 1..Len(replies) :
        (IsShowStatus(r) /\ Primary(r) /\ Blocked(r) /\ secretIdentityRequestor # nullptr)
        => LET call == replies[r].call
               retried == RepliesOf(call) \ {r}
           IN  /\ Cardinality(retried) = 1
               /\ \A q \in retried : Alternate(q) /\ replies[q].parent = r
               /\ EmittedBy(r) = {}
               /\ Cardinality(EmittedFor(call)) <= 1
               /\ (\A q \in RepliesOf(call) : Done(q))
                  => /\ Cardinality(EmittedFor(call)) = 1
                     /\ \A i \in EmittedFor(call) : emitted[i].reply \in retried

\* C3: a showStatus or userTimeline call whose primary and alternate
\* identities were both answered with code 136 took exactly two exchanges and,
\* once they are done, has its terminal outcome: a placeholder for showStatus,
\* an error message for userTimeline.
C3_BothBlockedTwoExchanges ==
    \A p \in 1..Len(replies) : \A a \in 1..Len(replies) :
        (/\ IsShowStatus(p) \/ IsUserTimeline(p)
         /\ ~Redispatch(p) /\ Primary(p) /\ Blocked(p)
         /\ replies[a].parent = p /\ Blocked(a))
        => LET call == replies[p].call
           IN  /\ RepliesOf(call) = {p, a}
               /\ Done(a)
                  => /\ Cardinality(EmittedFor(call)) = 1
                     /\ \A i \in EmittedFor(call) :
                           IF IsShowStatus(p)
                           THEN /\ emitted[i].signal = "showStatusSuccessful"
                                /\ "fakeTweet" \in DOMAIN emitted[i].args[1]
                           ELSE emitted[i].signal = "userTimelineError"

\* C4: every failed showStatus exchange that does not qualify for fallback
\* (alternate identity unset, or the exchange is already a fallback attempt, or
\* the code is not 136) emitted one placeholder on showStatusSuccessful whose
\* id_str is the requested identifier and whose full_text is the remote error
\* message, and nothing on showStatusError.
C4_PlaceholderWhenNoFallback ==
    \A r \in 1..Len(replies) :
        (/\ IsShowStatus(r) /\ Failed(r)
         /\ \/ secretIdentityRequestor = nullptr
            \/ Alternate(r)
            \/ ~Blocked(r))
        => /\ Cardinality(EmittedBy(r)) = 1
           /\ \A i \in EmittedBy(r) :
                 /\ emitted[i].signal = "showStatusSuccessful"
                 /\ "fakeTweet" \in DOMAIN emitted[i].args[1]
                 /\ emitted[i].args[1].id_str = replies[r].parameters["id"]
                 /\ emitted[i].args[1].full_text =
                        parseErrorResponse(replies[r].received.errorString,
                                           replies[r].received.document).message

\* ------------------------------------------------- C5..C10: what is read
OperationNames ==
    {"showStatus", "userTimeline", "followUser", "unfollowUser",
     "searchTweets", "searchUsers", "getOpenGraph"}
SuccessSignals == { name \o "Successful" : name \in OperationNames }
ErrorSignals == { name \o "Error" : name \in OperationNames }

Completed(r) == Done(r) /\ ~Failed(r)
IsGetSingleTweet(r) == replies[r].title = "TwitterApi::getSingleTweet"
IsGetOpenGraph(r) == replies[r].title = "TwitterApi::getOpenGraph"
IsHtml(r) ==
    replies[r].received.contentTypeHeader.isValid
    /\ replies[r].received.contentTypeHeader.textHtml

\* the exchanges the code answers with no notification of their own
Silent(r) ==
    \/ IsGetSingleTweet(r)
    \/ IsGetOpenGraph(r) /\ ~Failed(r) /\ ~IsHtml(r)
    \/ \E q \in 1..Len(replies) : replies[q].parent = r

\* C5: no call yields both a success and an error notification, no exchange
\* yields more than one notification, and what a failed exchange notifies comes
\* from its error slot, never from its finished slot.
C5_OneOutcome ==
    /\ \A call \in 1..Len(calls) :
          ~ \E i \in EmittedFor(call) : \E j \in EmittedFor(call) :
                /\ emitted[i].signal \in SuccessSignals
                /\ emitted[j].signal \in ErrorSignals
    /\ \A r \in 1..Len(replies) :
          /\ Cardinality(EmittedBy(r)) <= 1
          /\ Failed(r) => \A i \in EmittedBy(r) : emitted[i].slot = "error"

C5_Witness ==
    \E r \in 1..Len(replies) :
        /\ Failed(r) /\ Done(r)
        /\ \E i \in EmittedBy(r) :
              emitted[i].slot = "error" /\ emitted[i].signal \in ErrorSignals

C7_EmptyQuery ==
    \A call \in 1..Len(calls) :
        (calls[call].operation \in {"searchTweets", "searchUsers"}
         /\ calls[call].args[1] = <<>>)
        => /\ RepliesOf(call) = {}
           /\ Cardinality(EmittedFor(call)) = 1
           /\ \A i \in EmittedFor(call) :
                 /\ emitted[i].signal = calls[call].operation \o "Successful"
                 /\ emitted[i].args = << <<>> >>
                 /\ emitted[i].slot = "call"

C7_Witness ==
    \E call \in 1..Len(calls) :
        /\ calls[call].operation = "searchTweets"
        /\ calls[call].args[1] = <<>>
        /\ \E i \in EmittedFor(call) : emitted[i].signal = "searchTweetsSuccessful"

\* the message an entry stands for: the reshared one, or itself
UnderlyingId(entry) ==
    IF "retweeted_status" \in DOMAIN entry THEN entry.retweeted_status.id_str
    ELSE entry.id_str

\* the entries of a list that stand for message X
EntriesFor(list, X) == { i \in 1..Len(list) : UnderlyingId(list[i]) = X }

Smallest(indices) == CHOOSE i \in indices : \A j \in indices : i <= j

\* the statuses a completed searchTweets exchange was answered with
HasStatuses(r) ==
    /\ replies[r].url = "API_SEARCH_TWEETS" /\ Completed(r)
    /\ isObject(replies[r].received.document)
    /\ "statuses" \in DOMAIN replies[r].received.document.value
    /\ isArray(replies[r].received.document.value["statuses"])
StatusesOf(r) == replies[r].received.document.value["statuses"].value

\* C8: for every search response whose statuses contain message X or reshares
\* of X, the emitted list holds exactly one entry whose underlying identifier
\* is X, and it is the entry of smallest index among them in the response.
C8_KeepsEarliest ==
    \A r \in 1..Len(replies) :
        HasStatuses(r) =>
            /\ Cardinality(EmittedBy(r)) = 1
            /\ \A i \in EmittedBy(r) :
                  /\ emitted[i].signal = "searchTweetsSuccessful"
                  /\ \A k \in 1..Len(StatusesOf(r)) :
                        LET X == UnderlyingId(StatusesOf(r)[k])
                            kept == EntriesFor(emitted[i].args[1], X)
                        IN  /\ Cardinality(kept) = 1
                            /\ \A j \in kept :
                                  emitted[i].args[1][j] =
                                      StatusesOf(r)[Smallest(EntriesFor(StatusesOf(r), X))]

C8_Witness ==
    \E r \in 1..Len(replies) :
        /\ HasStatuses(r)
        /\ StatusesOf(r) = <<aReshare("3", "1"), aTweet("2"), aTweet("1")>>
        /\ \E i \in EmittedBy(r) :
              emitted[i].args[1] = <<aReshare("3", "1"), aTweet("2")>>

\* a completed exchange of the endpoint answered with an object
HasUserObject(r, url) ==
    replies[r].url = url /\ Completed(r) /\ isObject(replies[r].received.document)
UserObjectOf(r) == replies[r].received.document.value

\* C9: every successful followUser exchange with an object payload emits a
\* result with following = true whatever the payload held, and every other
\* field of the payload unchanged.
C9_FollowingTrue ==
    \A r \in 1..Len(replies) :
        HasUserObject(r, "API_FRIENDSHIPS_CREATE") =>
            /\ Cardinality(EmittedBy(r)) = 1
            /\ \A i \in EmittedBy(r) :
                  /\ emitted[i].signal = "followUserSuccessful"
                  /\ DOMAIN emitted[i].args[1] = DOMAIN UserObjectOf(r) \cup {"following"}
                  /\ emitted[i].args[1]["following"] = TRUE
                  /\ \A key \in DOMAIN UserObjectOf(r) \ {"following"} :
                        emitted[i].args[1][key] = UserObjectOf(r)[key]

C9_Witness ==
    \E r \in 1..Len(replies) :
        /\ HasUserObject(r, "API_FRIENDSHIPS_CREATE")
        /\ UserObjectOf(r) = [following |-> FALSE, protected |-> TRUE]
        /\ \E i \in EmittedBy(r) :
              emitted[i].args[1] = [following |-> TRUE, protected |-> TRUE]

\* C10: every successful unfollowUser exchange with an object payload emits a
\* result with following = false whatever the payload held.
C10_FollowingFalse ==
    \A r \in 1..Len(replies) :
        HasUserObject(r, "API_FRIENDSHIPS_DESTROY") =>
            /\ Cardinality(EmittedBy(r)) = 1
            /\ \A i \in EmittedBy(r) :
                  /\ emitted[i].signal = "unfollowUserSuccessful"
                  /\ "following" \in DOMAIN emitted[i].args[1]
                  /\ emitted[i].args[1]["following"] = FALSE

\* ------------------------------------------------------------ C11 .. C20
IsHomeTimeline(r) == replies[r].url = "API_STATUSES_HOME_TIMELINE"
IsListTimeline(r) == replies[r].url = "API_LISTS_STATUSES"

\* the maxId argument call was made with
Cursor(call) ==
    IF calls[call].operation = "homeTimeline" THEN calls[call].args[1]
    ELSE calls[call].args[2]

\* reply r completed with a JSON list as its body
HasList(r) == Completed(r) /\ isArray(replies[r].received.document)

\* C11: a homeTimeline or listTimeline exchange that completes with a list
\* emits that list once on the operation's success notification, tagged
\* incrementalUpdate = false when the call's maxId was empty and true when it
\* was not, whatever the list holds.
C11_TagFollowsCursor ==
    \A r \in 1..Len(replies) :
        (IsHomeTimeline(r) \/ IsListTimeline(r)) /\ HasList(r) =>
            /\ Cardinality(EmittedBy(r)) = 1
            /\ \A i \in EmittedBy(r) :
                  /\ emitted[i].signal = calls[replies[r].call].operation \o "Successful"
                  /\ emitted[i].args =
                        <<replies[r].received.document.value,
                          Cursor(replies[r].call) # <<>> >>

C11_Witness ==
    \E r \in 1..Len(replies) :
        /\ IsHomeTimeline(r) /\ HasList(r)
        /\ Cursor(replies[r].call) # <<>>
        /\ \E i \in EmittedBy(r) : emitted[i].args = << <<aTweet("7")>>, TRUE >>

IsMentionsTimeline(r) == replies[r].url = "API_STATUSES_MENTIONS_TIMELINE"
IsRetweetTimeline(r) == replies[r].url = "API_STATUSES_RETWEET_TIMELINE"
IsTimeline(r) ==
    \/ IsHomeTimeline(r) \/ IsListTimeline(r) \/ IsMentionsTimeline(r)
    \/ IsRetweetTimeline(r) \/ IsUserTimeline(r)

\* C12 as stated: the success notification of every homeTimeline,
\* listTimeline, mentionsTimeline, retweetTimeline and userTimeline exchange
\* carries, after the list, the boolean that tells an initial page from a
\* continuation page.
C12_EveryTimelineTagged ==
    \A r \in 1..Len(replies) :
        IsTimeline(r) /\ HasList(r) =>
            \A i \in EmittedBy(r) :
                Len(emitted[i].args) = 2 /\ emitted[i].args[2] \in BOOLEAN

\* C12 amended: the success notifications of homeTimeline and listTimeline
\* carry the list and the boolean; those of mentionsTimeline, retweetTimeline
\* and userTimeline carry the list alone.
C12_OnlyHomeAndListTagged ==
    \A r \in 1..Len(replies) :
        IsTimeline(r) /\ HasList(r) =>
            /\ Cardinality(EmittedBy(r)) = 1
            /\ \A i \in EmittedBy(r) :
                  /\ emitted[i].signal = calls[replies[r].call].operation \o "Successful"
                  /\ emitted[i].args[1] = replies[r].received.document.value
                  /\ IF IsHomeTimeline(r) \/ IsListTimeline(r)
                     THEN Len(emitted[i].args) = 2 /\ emitted[i].args[2] \in BOOLEAN
                     ELSE Len(emitted[i].args) = 1

C12_Witness ==
    /\ \E r \in 1..Len(replies) :
          /\ IsMentionsTimeline(r) \/ IsRetweetTimeline(r) \/ IsUserTimeline(r)
          /\ HasList(r)
          /\ \E i \in EmittedBy(r) : emitted[i].args = << <<aTweet("7")>> >>

\* the operations whose finished slot asks jsonDocument.isArray(); the others
\* modelled here ask jsonDocument.isObject()
ExpectsList(r) ==
    \/ IsTimeline(r)
    \/ replies[r].url = "API_SEARCH_USERS"

\* reply r completed with a body that is no JSON document, or a JSON document
\* of the other kind than its operation expects
Mismatched(r) ==
    /\ Completed(r)
    /\ IF ExpectsList(r) THEN ~isArray(replies[r].received.document)
       ELSE ~isObject(replies[r].received.document)

\* C13: an exchange of a JSON operation that completes with a malformed body,
\* or with an object where a list is expected or a list where an object is
\* expected, emits exactly one notification: the operation's error
\* notification carrying the fixed client-side message.
C13_MismatchIsFixedError ==
    \A r \in 1..Len(replies) :
        Mismatched(r) =>
            /\ Cardinality(EmittedBy(r)) = 1
            /\ \A i \in EmittedBy(r) :
                  /\ emitted[i].signal = calls[replies[r].call].operation \o "Error"
                  /\ emitted[i].args = <<DEFAULT_ERROR_MESSAGE>>
                  /\ emitted[i].slot = "finished"

C13_Witness ==
    /\ \E r \in 1..Len(replies) :
          /\ IsUserTimeline(r) /\ Mismatched(r)
          /\ isObject(replies[r].received.document)
          /\ \E i \in EmittedBy(r) :
                /\ emitted[i].signal = "userTimelineError"
                /\ emitted[i].args = <<DEFAULT_ERROR_MESSAGE>>

\* the finished slot of reply r has run (to its end, or into a fault)
Handled(r) == replies[r].phase \in {"finished", "faulted"}

\* the og tags among the four that the document of reply r holds
TagsFound(r) == DOMAIN replies[r].received.document.value.og \cap OpenGraphTags

\* reply r of getOpenGraph fetched an HTML document
IsPreview(r) == IsGetOpenGraph(r) /\ Handled(r) /\ ~Failed(r) /\ IsHtml(r)

\* C14: every getOpenGraph exchange that fetched an HTML document holding none
\* of og:url, og:image, og:description, og:title emits exactly one
\* notification, getOpenGraphError, whose message starts with the request URL.
C14_NoTagsIsError ==
    \A r \in 1..Len(replies) :
        IsPreview(r) /\ TagsFound(r) = {} =>
            /\ Cardinality(EmittedBy(r)) = 1
            /\ \A i \in EmittedBy(r) :
                  /\ emitted[i].signal = "getOpenGraphError"
                  /\ emitted[i].args =
                        <<replies[r].url \o " does not contain Open Graph data">>

\* C15: a getOpenGraph exchange whose finished slot found at least one of the
\* four og tags in an HTML document emits exactly one getOpenGraphSuccessful
\* whose url is the request URL, whatever og:url the document declared, and
\* whose title is the document's og:title when found and the request URL
\* otherwise; the slot emits getOpenGraphSuccessful in no other case.
C15_UrlAndTitle ==
    \A r \in 1..Len(replies) :
        /\ IsPreview(r) /\ Done(r) /\ TagsFound(r) # {} =>
              /\ Cardinality(EmittedBy(r)) = 1
              /\ \A i \in EmittedBy(r) :
                    /\ emitted[i].signal = "getOpenGraphSuccessful"
                    /\ emitted[i].args[1]["url"] = replies[r].url
                    /\ emitted[i].args[1]["title"] =
                          IF "title" \in TagsFound(r)
                          THEN replies[r].received.document.value.og["title"]
                          ELSE replies[r].url
        /\ \A i \in EmittedBy(r) :
              emitted[i].signal = "getOpenGraphSuccessful" =>
                  IsPreview(r) /\ TagsFound(r) # {}

C15_Witness ==
    \E r \in 1..Len(replies) :
        /\ IsPreview(r) /\ Done(r)
        /\ TagsFound(r) = {"url", "image"}
        /\ replies[r].received.document.value.og["url"] # replies[r].url
        /\ \E i \in EmittedBy(r) :
              /\ emitted[i].args[1]["url"] = replies[r].url
              /\ emitted[i].args[1]["title"] = replies[r].url

\* the conversation sessions the slots of reply r started
SessionsOf(r) == { i \in 1..Len(conversations) : conversations[i].reply = r }

\* the exchanges the slots of reply r started
StartedBy(r) == { q \in 1..Len(replies) : replies[q].parent = r }

\* reply r fetched a document whose content type is missing or not text/html
NotHtml(r) == Handled(r) /\ ~Failed(r) /\ ~IsHtml(r)

\* C16: a getOpenGraph or getSingleTweet exchange that fetched a document
\* whose content-type header is missing or lacks text/html notifies nothing,
\* starts no conversation session and no further exchange, and its finished
\* slot returns normally.
C16_NotHtmlIsSilent ==
    \A r \in 1..Len(replies) :
        (IsGetOpenGraph(r) \/ IsGetSingleTweet(r)) /\ NotHtml(r) =>
            /\ EmittedBy(r) = {}
            /\ SessionsOf(r) = {}
            /\ StartedBy(r) = {}
            /\ Done(r)

C16_Witness ==
    \E r \in 1..Len(replies) :
        /\ IsGetSingleTweet(r) /\ NotHtml(r)
        /\ replies[r].received.contentTypeHeader.isValid
        /\ replies[r].received.document.value.nodes = <<aNode({"tweet"}, "43")>>
        /\ SessionsOf(r) = {}

\* C17: no slot ends in an unhandled fault: the process never faults, whatever
\* the transport answers.
C17_NoUnhandledFault ==
    /\ ~crashed
    /\ \A r \in 1..Len(replies) : replies[r].phase # "faulted"

\* the failure of reply r is one the error slot answers with a retry
ShouldRetry(r) ==
    Blocked(r) /\ secretIdentityRequestor # nullptr /\ ~Alternate(r)

\* C18: a failed userTimeline exchange with remote code 136, while the
\* alternate identity is configured and the exchange was not itself made under
\* it, notifies nothing and starts exactly one userTimeline exchange under the
\* alternate identity; every other failed userTimeline exchange starts no
\* exchange and emits, once and from its error slot, userTimelineError with
\* the remote error message.
C18_RetryOrReport ==
    \A r \in 1..Len(replies) :
        IsUserTimeline(r) /\ Failed(r) =>
            IF ShouldRetry(r)
            THEN /\ EmittedBy(r) = {}
                 /\ Cardinality(StartedBy(r)) = 1
                 /\ \A q \in StartedBy(r) : IsUserTimeline(q) /\ Alternate(q)
            ELSE /\ StartedBy(r) = {}
                 /\ Cardinality(EmittedBy(r)) = 1
                 /\ \A i \in EmittedBy(r) :
                       /\ emitted[i].signal = "userTimelineError"
                       /\ emitted[i].slot = "error"
                       /\ emitted[i].args =
                             <<parseErrorResponse(replies[r].received.errorString,
                                                  replies[r].received.document).message>>

\* the call returned at once without a request: an empty search query
ShortCircuited(call) ==
    calls[call].operation \in {"searchTweets", "searchUsers"} /\ calls[call].args[1] = <<>>

\* the exchanges the call itself started, not one of its slots
StartedAtCall(call) == { r \in RepliesOf(call) : replies[r].parent = 0 }

\* every exchange made for the call has had its finished slot return
AllDone(call) == RepliesOf(call) # {} /\ \A r \in RepliesOf(call) : Done(r)

\* the last exchange of the call is one the code answers with no notification
EndsSilent(call) ==
    \E r \in RepliesOf(call) :
        /\ StartedBy(r) = {}
        /\ \/ IsGetSingleTweet(r)
           \/ IsGetOpenGraph(r) /\ ~Failed(r) /\ ~IsHtml(r)

\* every call that is not short-circuited started exactly one exchange of its
\* own when it was made, also when an equal call was already in flight
OneExchangePerCall ==
    \A call \in 1..Len(calls) :
        Cardinality(StartedAtCall(call)) = IF ShortCircuited(call) THEN 0 ELSE 1

C20_OwnErrorNotification ==
    \A r \in 1..Len(replies) :
        Failed(r) =>
            \A i \in EmittedBy(r) :
                LET operation == calls[replies[r].call].operation
                IN  \/ emitted[i].signal = operation \o "Error"
                    \/ operation = "showStatus" /\ emitted[i].signal = "showStatusSuccessful"

\* ------------------------------------------------------------ C21 .. C30
IsRetweetsFor(r) == replies[r].url = "API_STATUSES_RETWEETS_FOR"

\* the string is made of decimal digits only
AllDigits(s) == \A k \in 1..Len(s) : isDigit(s[k])

\* the statusId argument of the retweetsFor call reply r belongs to
RequestedId(r) == calls[replies[r].call].args[1]

\* C21 as stated: every notification of a retweetsFor exchange, success or
\* error, carries as first argument the status identifier its call was made
\* with, whatever that identifier is.
C21_CarriesItsIdentifier ==
    \A r \in 1..Len(replies) :
        IsRetweetsFor(r) =>
            \A i \in EmittedBy(r) : emitted[i].args[1] = RequestedId(r)

\* C21 amended: every notification of a retweetsFor exchange whose call was
\* made with an identifier of decimal digits carries that identifier as first
\* argument, in whatever order concurrent exchanges complete; an exchange
\* whose finished slot returned has notified exactly once.
C21_CarriesItsNumericIdentifier ==
    \A r \in 1..Len(replies) :
        IsRetweetsFor(r) =>
            /\ AllDigits(RequestedId(r)) =>
                  \A i \in EmittedBy(r) :
                      /\ emitted[i].args[1] = RequestedId(r)
                      /\ emitted[i].signal \in {"retweetsForSuccessful", "retweetsForError"}
            /\ Done(r) => Cardinality(EmittedBy(r)) = 1

C21_Witness ==
    /\ Len(calls) = 2 /\ Len(emitted) = 2
    /\ calls[1].args[1] = <<"4", "2">> /\ calls[2].args[1] = <<"7">>
    /\ emitted[1].call = 2 /\ emitted[1].signal = "retweetsForError"
    /\ emitted[1].args[1] = <<"7">>
    /\ emitted[2].call = 1 /\ emitted[2].signal = "retweetsForSuccessful"
    /\ emitted[2].args[1] = <<"4", "2">>

\* the optional argument of the call and the parameter it is sent as
OptionalArgument(call) ==
    CASE calls[call].operation = "tweet" -> [value |-> calls[call].args[2], key |-> "place_id"]
      [] calls[call].operation = "friends" -> [value |-> calls[call].args[2], key |-> "cursor"]
      [] calls[call].operation = "directMessagesList" ->
            [value |-> calls[call].args[1], key |-> "cursor"]
      [] calls[call].operation = "homeTimeline" ->
            [value |-> calls[call].args[1], key |-> "max_id"]
      [] OTHER -> [value |-> calls[call].args[2], key |-> "max_id"]

\* C22: the request a tweet, friends, directMessagesList, homeTimeline or
\* listTimeline call issues has the optional argument's parameter (place_id,
\* cursor, max_id) among its parameters exactly when the argument was given
\* non-empty, and then with the argument's value.
C22_OptionalParameter ==
    \A r \in 1..Len(replies) :
        replies[r].parent = 0 =>
            LET optional == OptionalArgument(replies[r].call)
            IN  /\ optional.key \in DOMAIN replies[r].parameters <=> optional.value # <<>>
                /\ optional.value # <<>> =>
                      replies[r].parameters[optional.key] = optional.value

\* the body reply r failed with is no JSON object holding a non-empty array
\* under "errors"
NoRemoteErrors(r) ==
    LET body == replies[r].received.document
    IN  /\ Failed(r)
        /\ ~ /\ isObject(body)
             /\ "errors" \in DOMAIN body.value
             /\ isArray(body.value["errors"])
             /\ body.value["errors"].value # <<>>

\* the message a notification reports: its only argument, or the text of the
\* placeholder showStatus answers with
ReportedMessage(i) ==
    IF emitted[i].signal = "showStatusSuccessful"
    THEN emitted[i].args[1].full_text
    ELSE emitted[i].args[1]

\* C23: for a failed exchange whose body is no JSON object with a non-empty
\* errors array, the error report has no remote code and the transport's own
\* error string as message; that string is what the exchange's error slot
\* reports, once, and no further exchange is started.
C23_TransportErrorString ==
    \A r \in 1..Len(replies) :
        NoRemoteErrors(r) =>
            /\ parseErrorResponse(replies[r].received.errorString,
                                  replies[r].received.document)
                  = [hasCode |-> FALSE, code |-> "",
                     message |-> replies[r].received.errorString]
            /\ StartedBy(r) = {}
            /\ Cardinality(EmittedBy(r)) = 1
            /\ \A i \in EmittedBy(r) :
                  /\ emitted[i].slot = "error"
                  /\ ReportedMessage(i) = replies[r].received.errorString

C23_Witness ==
    \E r \in 1..Len(replies) :
        /\ NoRemoteErrors(r) /\ IsShowStatus(r)
        /\ secretIdentityRequestor # nullptr
        /\ replies[r].received.document =
              ObjectDocument("errors" :> [type |-> "string", value |-> "unavailable"])
        /\ \E i \in EmittedBy(r) :
              ReportedMessage(i) = "Error transferring - server replied"

\* C24: an exchange re-dispatched by the fallback policy goes to the same
\* endpoint with the same parameters and query as the failed exchange it
\* answers, under the alternate identity, and carries the no-recursion header
\* that the error slots test.
C24_SameRequestMarked ==
    \A q \in 1..Len(replies) :
        Redispatch(q) =>
            LET r == replies[q].parent
            IN  /\ replies[q].url = replies[r].url
                /\ replies[q].verb = replies[r].verb
                /\ replies[q].parameters = replies[r].parameters
                /\ replies[q].urlQuery = replies[r].urlQuery
                /\ Alternate(q)
                /\ HEADER_NO_RECURSION \in replies[q].rawHeaders

\* reply q was re-dispatched for a showStatus or userTimeline exchange that
\* failed with code 136 while the alternate identity is configured
RetryOfBlocked(q) ==
    /\ Redispatch(q)
    /\ IsShowStatus(replies[q].parent) \/ IsUserTimeline(replies[q].parent)
    /\ Blocked(replies[q].parent)
    /\ secretIdentityRequestor # nullptr

\* reply q was issued by a showStatus or userTimeline call made with
\* useSecretIdentity = true
AskedForAlternate(q) ==
    /\ replies[q].parent = 0
    /\ calls[replies[q].call].operation \in {"showStatus", "userTimeline"}
    /\ calls[replies[q].call].args[2] = TRUE

\* failures never cause an alternate-identity exchange unless they carry code
\* 136, and a failure of another operation than showStatus and userTimeline
\* that carries code 136 is reported once, from the error slot, on the
\* operation's error notification with the remote message, without retry
OnlyBlockedReadsRetry ==
    \A r \in 1..Len(replies) :
        /\ Failed(r) /\ ~Blocked(r) => StartedBy(r) = {}
        /\ Blocked(r) /\ ~IsShowStatus(r) /\ ~IsUserTimeline(r) =>
              /\ StartedBy(r) = {}
              /\ Cardinality(EmittedBy(r)) = 1
              /\ \A i \in EmittedBy(r) :
                    /\ emitted[i].slot = "error"
                    /\ emitted[i].signal = calls[replies[r].call].operation \o "Error"
                    /\ emitted[i].args = <<"You have been blocked">>

\* C25 as stated: every exchange under the alternate identity is the
\* re-dispatch of a showStatus or userTimeline exchange that failed with code
\* 136 while the alternate identity is configured; no other failure causes an
\* alternate-identity exchange, and code 136 on another operation is reported
\* on its error notification without retry.
C25_AlternateOnlyByRetry ==
    /\ \A q \in 1..Len(replies) : Alternate(q) => RetryOfBlocked(q)
    /\ OnlyBlockedReadsRetry

\* C25 amended: every exchange under the alternate identity was either asked
\* for by a showStatus or userTimeline call with useSecretIdentity = true, or
\* is the re-dispatch of a showStatus or userTimeline exchange that failed with
\* code 136 while the alternate identity is configured; no other failure
\* causes an alternate-identity exchange, and code 136 on another operation is
\* reported on its error notification without retry.
C25_AlternateByRetryOrRequest ==
    /\ \A q \in 1..Len(replies) :
          Alternate(q) => RetryOfBlocked(q) \/ AskedForAlternate(q)
    /\ OnlyBlockedReadsRetry

C25_Witness ==
    /\ secretIdentityRequestor # nullptr
    /\ \E r \in 1..Len(replies) :
          /\ replies[r].url = "API_FRIENDSHIPS_CREATE" /\ Blocked(r)
          /\ StartedBy(r) = {}
          /\ \E i \in EmittedBy(r) : emitted[i].signal = "followUserError"

\* notification i is a placeholder of showStatus
IsPlaceholder(i) ==
    emitted[i].signal = "showStatusSuccessful" /\ "fakeTweet" \in DOMAIN emitted[i].args[1]

\* C26: with showStatus calls in flight together, every notification of a
\* showStatus exchange belongs to the call of that exchange and is built from
\* that exchange alone (a placeholder carries the id of its own request and
\* the error text of its own failure, a result the object of its own body);
\* a retried exchange belongs to the call of the exchange it retries and asks
\* for the same id; and an exchange is under the alternate identity only when
\* its own call asked for it or it retries a blocked exchange of its own call.
C26_OwnExchangeOnly ==
    /\ \A i \in 1..Len(emitted) :
          emitted[i].reply # 0 /\ IsShowStatus(emitted[i].reply) =>
              LET r == emitted[i].reply
              IN  /\ emitted[i].call = replies[r].call
                  /\ emitted[i].slot = "error" =>
                        /\ IsPlaceholder(i)
                        /\ emitted[i].args[1].id_str = replies[r].parameters["id"]
                        /\ emitted[i].args[1].full_text =
                              parseErrorResponse(replies[r].received.errorString,
                                                 replies[r].received.document).message
                  /\ emitted[i].slot = "finished"
                     /\ emitted[i].signal = "showStatusSuccessful" =>
                        emitted[i].args[1] = replies[r].received.document.value
    /\ \A q \in 1..Len(replies) :
          IsShowStatus(q) =>
              /\ Redispatch(q) =>
                    /\ replies[q].call = replies[replies[q].parent].call
                    /\ replies[q].parameters["id"] = replies[replies[q].parent].parameters["id"]
              /\ Alternate(q) <=> RetryOfBlocked(q) \/
                                  (AskedForAlternate(q) /\ secretIdentityRequestor # nullptr)

C26_Witness ==
    /\ Len(calls) = 2 /\ Len(replies) = 3
    /\ calls[1].operation = "showStatus" /\ calls[2].operation = "showStatus"
    /\ calls[1].args = << <<"1">>, FALSE >> /\ calls[2].args = << <<"2", "?", "s">>, FALSE >>
    /\ replies[3].parent = 1 /\ Alternate(3) /\ replies[3].phase = "sent"
    /\ replies[2].call = 2 /\ Primary(2) /\ Failed(2)
    /\ \E i \in EmittedBy(2) :
          /\ IsPlaceholder(i)
          /\ emitted[i].args[1].id_str = <<"2">>
          /\ emitted[i].args[1].full_text = "Sorry, that page does not exist"

\* C27: with homeTimeline or listTimeline calls in flight together, every
\* success notification belongs to the call of its exchange and is tagged
\* incrementalUpdate = true exactly when that call was made with a non-empty
\* maxId, in whatever order the exchanges complete.
C27_TaggedByOwnCursor ==
    \A i \in 1..Len(emitted) :
        emitted[i].signal \in {"homeTimelineSuccessful", "listTimelineSuccessful"} =>
            /\ emitted[i].call = replies[emitted[i].reply].call
            /\ emitted[i].signal = calls[emitted[i].call].operation \o "Successful"
            /\ emitted[i].args[2] = (Cursor(emitted[i].call) # <<>>)

C27_Witness ==
    /\ Len(calls) = 2 /\ Len(emitted) = 2
    /\ calls[1].operation = "listTimeline" /\ calls[2].operation = "listTimeline"
    /\ Cursor(1) = <<>> /\ Cursor(2) # <<>>
    /\ emitted[1].call = 2 /\ emitted[1].signal = "listTimelineSuccessful"
    /\ emitted[1].args[2] = TRUE
    /\ emitted[2].call = 1 /\ emitted[2].signal = "listTimelineSuccessful"
    /\ emitted[2].args[2] = FALSE

\* the indices of the entries of a list that no earlier entry shares its
\* underlying identifier with
FirstOccurrences(list) ==
    { k \in 1..Len(list) :
        \A j \in 1..(k - 1) : UnderlyingId(list[j]) # UnderlyingId(list[k]) }

\* result holds exactly the entries of list at the indices kept, in the order
\* of list
IsSubsequenceAt(result, list, kept) ==
    /\ Len(result) = Cardinality(kept)
    /\ \E at \in [1..Len(result) -> kept] :
          /\ \A m \in 1..Len(result) : \A n \in 1..Len(result) : m < n => at[m] < at[n]
          /\ \A n \in 1..Len(result) : result[n] = list[at[n]]

\* C28: the list a searchTweets exchange emits is the response's statuses
\* with exactly those entries removed that have an earlier entry of the same
\* underlying identifier; the entries kept are unchanged and in their original
\* order.
C28_OrderPreservingSubsequence ==
    \A r \in 1..Len(replies) :
        HasStatuses(r) =>
            \A i \in EmittedBy(r) :
                IsSubsequenceAt(emitted[i].args[1], StatusesOf(r),
                                FirstOccurrences(StatusesOf(r)))

C28_Witness ==
    \E r \in 1..Len(replies) :
        /\ HasStatuses(r)
        /\ StatusesOf(r) = <<aTweet("2"), aReshare("3", "1"), aTweet("1")>>
        /\ \E i \in EmittedBy(r) :
              emitted[i].args[1] = <<aTweet("2"), aReshare("3", "1")>>

\* the charset tokens the content-type header of reply r declared
DeclaredCharsets(r) == replies[r].received.contentTypeHeader.charsets

\* some declared token is UTF-8 in whatever case
DeclaresUtf8(tokens) == \E k \in 1..Len(tokens) : toUpper(tokens[k]) = "UTF-8"

\* C29: the charset a link-preview document is decoded with is UTF-8 when the
\* header declares no charset token or some declared token is UTF-8 in
\* whatever case, and otherwise the last declared token (in upper case), also
\* when it is the only one; the slot faults exactly when that charset has no
\* codec and the build faults on the null codec.
C29_CharsetChoice ==
    \A r \in 1..Len(replies) :
        IsPreview(r) =>
            LET tokens == DeclaredCharsets(r)
                charset == openGraphCharset(replies[r].received.contentTypeHeader)
            IN  /\ tokens = <<>> \/ DeclaresUtf8(tokens) => charset = "UTF-8"
                /\ tokens # <<>> /\ ~DeclaresUtf8(tokens) =>
                      charset = toUpper(tokens[Len(tokens)])
                /\ replies[r].phase = "faulted" <=>
                      /\ replies[r].received.undefined = "fault"
                      /\ tokens # <<>> /\ ~DeclaresUtf8(tokens)
                      /\ codecForName(toUpper(tokens[Len(tokens)])) = nullptr

C29_Witness ==
    \E r \in 1..Len(replies) :
        /\ IsPreview(r)
        /\ DeclaredCharsets(r) = <<"iso-8859-1", "x-unknown">>
        /\ replies[r].phase = "faulted"

\* the getSingleTweet calls and the conversation sessions they started
IsConversationCall(call) == calls[call].operation = "getSingleTweet"
ConversationsOf(call) == { s \in 1..Len(conversations) : conversations[s].call = call }
ConversationResults(call) ==
    { i \in 1..Len(emitted) :
        emitted[i].call = call /\ emitted[i].signal = "tweetConversationReceived" }

\* the identifier of the root message: the one the requested address names
RootId(call) == tweetIdRegex(calls[call].args[2])

\* the related tweets of a session that were fetched, in some order
IsAggregateOf(receivedTweets, session) ==
    \E fetched \in SUBSET DOMAIN session.relatedTweets :
        /\ Len(receivedTweets) = Cardinality(fetched)
        /\ \A k \in fetched :
              \E j \in 1..Len(receivedTweets) : receivedTweets[j] = session.relatedTweets[k]

Eligible(nodes) ==
    { k \in 1..Len(nodes) :
        /\ "tweet" \in nodes[k].classList
        /\ "promoted-tweet" \notin nodes[k].classList
        /\ nodes[k].dataTweetId # "" }

\* the j-th smallest member of a set of positions
NthOf(positions, j) ==
    CHOOSE k \in positions : Cardinality({ m \in positions : m <= k }) = j

\* the identifiers of the eligible elements, one per element, in page order
EligibleIds(nodes) ==
    [j \in 1..Cardinality(Eligible(nodes)) |-> nodes[NthOf(Eligible(nodes), j)].dataTweetId]

\* the elements of the page reply r was answered with
PageNodes(r) == replies[r].received.document.value.nodes

\* C31: for a getSingleTweet exchange answered with an HTML page, the
\* identifiers handed to the conversation are exactly the non-empty
\* data-tweet-id attributes of the elements whose class list contains tweet
\* and does not contain promoted-tweet, one per element, in page order and
\* with repeats kept; a conversation exists only when there is such an element.
C31_CollectedIdentifiers ==
    \A r \in 1..Len(replies) :
        (IsGetSingleTweet(r) /\ Completed(r) /\ IsHtml(r)) =>
            /\ Cardinality(SessionsOf(r)) = IF Eligible(PageNodes(r)) = {} THEN 0 ELSE 1
            /\ \A s \in SessionsOf(r) :
                  conversations[s].relatedTweets = EligibleIds(PageNodes(r))

\* a page with a promoted tweet between two elements of the same identifier
C31_Witness ==
    \E r \in 1..Len(replies) :
        /\ IsGetSingleTweet(r) /\ Completed(r) /\ IsHtml(r)
        /\ Len(PageNodes(r)) = 3
        /\ "promoted-tweet" \in PageNodes(r)[2].classList
        /\ \E s \in SessionsOf(r) : conversations[s].relatedTweets = <<"43", "43">>

\* the placeholders the caller received on showStatusSuccessful
Placeholders ==
    { i \in 1..Len(emitted) :
        emitted[i].signal = "showStatusSuccessful" /\ "fakeTweet" \in DOMAIN emitted[i].args[1] }

\* C32: every placeholder reported for a failed showStatus is marked as one
\* (fakeTweet = true) and has a user block with empty name and image and false
\* verified and protected flags, retweeted = false, favorited = false, and an
\* entities block whose hashtags, symbols, urls and user_mentions are empty
\* lists, next to its id_str and full_text.
C32_PlaceholderIsComplete ==
    \A i \in Placeholders :
        LET placeholder == emitted[i].args[1]
        IN  /\ {"fakeTweet", "user", "retweeted", "favorited", "entities",
                "id_str", "full_text"} \subseteq DOMAIN placeholder
            /\ placeholder.fakeTweet = TRUE
            /\ {"name", "verified", "protected", "profile_image_url_https"}
                    \subseteq DOMAIN placeholder.user
            /\ placeholder.user.name = "" /\ placeholder.user.profile_image_url_https = ""
            /\ placeholder.user.verified = FALSE /\ placeholder.user.protected = FALSE
            /\ placeholder.retweeted = FALSE /\ placeholder.favorited = FALSE
            /\ DOMAIN placeholder.entities = {"hashtags", "symbols", "urls", "user_mentions"}
            /\ \A key \in DOMAIN placeholder.entities : placeholder.entities[key] = <<>>

\* a failed showStatus exchange reported a placeholder, in either unit
C32_Witness ==
    \E i \in Placeholders :
        /\ emitted[i].reply # 0
        /\ IsShowStatus(emitted[i].reply) /\ Failed(emitted[i].reply)
        /\ unit = PART_000

NamesOwnUrl(i, r) ==
    IF emitted[i].signal = "getOpenGraphSuccessful"
    THEN emitted[i].args[1]["url"] = replies[r].url
    ELSE emitted[i].args = <<replies[r].url \o " does not contain Open Graph data">>

\* an exchange of getOpenGraph still waiting for its answer is never left in a
\* process that has faulted
NoScrapeCutOff ==
    \A r \in 1..Len(replies) :
        IsGetOpenGraph(r) /\ replies[r].phase = "sent" => ~crashed

\* C34: with getOpenGraph calls for different addresses in flight together,
\* no scrape is cut off by what happened to another one, every exchange has
\* at most one notification, and each notification, success or failure,
\* names the address of its own request.
C34_ScrapeConfined ==
    /\ NoScrapeCutOff
    /\ \A r \in 1..Len(replies) :
          IsGetOpenGraph(r) =>
              /\ Cardinality(EmittedBy(r)) <= 1
              /\ \A i \in EmittedBy(r) : NamesOwnUrl(i, r)

\* the errors the body of failed reply r lists; none for any other body
ListedErrors(r) ==
    LET body == replies[r].received.document
    IN  IF Failed(r) /\ isObject(body) /\ "errors" \in DOMAIN body.value
           /\ isArray(body.value["errors"])
        THEN body.value["errors"].value
        ELSE <<>>

LastListed(r) == ListedErrors(r)[Len(ListedErrors(r))]

\* reply r is a first attempt: asked for under the primary identity by the caller
FirstAttempt(r) == ~Redispatch(r) /\ ~replies[r].useSecretIdentity

\* C35: for a failed showStatus or userTimeline exchange whose body lists one
\* or more errors, the parsed report has the code and the message of the last
\* listed one; the exchange is re-dispatched only when that last code is 136,
\* whatever the earlier ones are, and a first attempt whose last code is 136 is
\* re-dispatched when the alternate identity is configured; what the exchange
\* reports to the caller carries the last listed message.
C35_LastListedErrorDecides ==
    \A r \in 1..Len(replies) :
        ((IsShowStatus(r) \/ IsUserTimeline(r)) /\ ListedErrors(r) # <<>>) =>
            LET parsed == parseErrorResponse(replies[r].received.errorString,
                                             replies[r].received.document)
            IN  /\ parsed.hasCode
                /\ parsed.code = number(LastListed(r)["code"])
                /\ parsed.message = LastListed(r)["message"]
                /\ StartedBy(r) # {} => LastListed(r)["code"] = 136
                /\ (LastListed(r)["code"] = 136 /\ FirstAttempt(r)
                       /\ secretIdentityRequestor # nullptr) => StartedBy(r) # {}
                /\ \A i \in EmittedBy(r) : ReportedMessage(i) = LastListed(r)["message"]

\* code 136 listed first and another code last, alternate identity configured:
\* no re-dispatch, the last message is reported
C35_Witness ==
    \E r \in 1..Len(replies) :
        /\ IsShowStatus(r) /\ FirstAttempt(r) /\ secretIdentityRequestor # nullptr
        /\ Len(ListedErrors(r)) = 2
        /\ ListedErrors(r)[1]["code"] = 136 /\ ListedErrors(r)[2]["code"] = 34
        /\ StartedBy(r) = {}
        /\ \E i \in EmittedBy(r) : IsPlaceholder(i)

\* reply r went out with the credentials of the alternate identity
SentAsAlternate(r) ==
    secretIdentityRequestor # nullptr /\ replies[r].usedRequestor = secretIdentityRequestor

\* C36: every exchange sent with the credentials of the alternate identity is
\* a GET of showStatus or userTimeline; no POST is ever sent with them.
C36_AlternateOnlyReads ==
    \A r \in 1..Len(replies) :
        SentAsAlternate(r) =>
            /\ replies[r].verb = "get"
            /\ IsShowStatus(r) \/ IsUserTimeline(r)
            /\ replies[r].title \in {"TwitterApi::showStatus", "TwitterApi::userTimeline"}

\* a blocked userTimeline was re-dispatched under the alternate identity
C36_Witness ==
    \E r \in 1..Len(replies) :
        SentAsAlternate(r) /\ IsUserTimeline(r) /\ Redispatch(r) /\ replies[r].verb = "get"

\* the part of an identifier before its first question mark
Truncated(statusId) ==
    LET n == CHOOSE k \in 0..Len(statusId) :
                 /\ \A i \in 1..k : statusId[i] # "?"
                 /\ k = Len(statusId) \/ statusId[k + 1] = "?"
    IN  SubSeq(statusId, 1, n)

\* C37: every exchange of a showStatus call, the first one and each
\* re-dispatch, sends as id the supplied statusId cut before its first '?'
\* (the whole statusId when it has none), in the parameters and in the query
\* alike, so the id sent never contains '?'; a placeholder reported for the
\* call has that same cut identifier as id_str.
C37_IdCutAtQuestionMark ==
    \A r \in 1..Len(replies) :
        IsShowStatus(r) =>
            LET sent == Truncated(calls[replies[r].call].args[1])
            IN  /\ replies[r].parameters["id"] = sent
                /\ queryItemValue(replies[r].urlQuery, "id") = sent
                /\ \A k \in 1..Len(replies[r].parameters["id"]) :
                      replies[r].parameters["id"][k] # "?"
                /\ \A i \in EmittedBy(r) : IsPlaceholder(i) => emitted[i].args[1].id_str = sent

\* an identifier with two question marks: blocked, re-dispatched, and the
\* placeholder of the retry carries the cut identifier
C37_Witness ==
    \E r \in 1..Len(replies) :
        /\ IsShowStatus(r) /\ Redispatch(r)
        /\ calls[replies[r].call].args[1] = <<"3", "?", "4", "?", "5">>
        /\ \E i \in EmittedBy(r) : IsPlaceholder(i) /\ emitted[i].args[1].id_str = <<"3">>

\* the rule of handleSearchTweetsFinished applied to a whole list
Deduplicated(list) == removeDuplicates(list, 1, <<>>, <<>>)

\* C38: the list a searchTweets exchange emits is what the de-duplication
\* makes of the response's statuses, and the rule applied to that list once
\* more returns it unchanged, entries and order.
C38_DeduplicationIdempotent ==
    \A r \in 1..Len(replies) :
        HasStatuses(r) =>
            \A i \in EmittedBy(r) :
                /\ emitted[i].args[1] = Deduplicated(StatusesOf(r))
                /\ Deduplicated(emitted[i].args[1]) = emitted[i].args[1]

\* a response of three entries of which one was removed
C38_Witness ==
    \E r \in 1..Len(replies) :
        /\ HasStatuses(r)
        /\ StatusesOf(r) = <<aReshare("4", "1"), aTweet("2"), aReshare("3", "1")>>
        /\ \E i \in EmittedBy(r) :
              /\ emitted[i].args[1] = <<aReshare("4", "1"), aTweet("2")>>
              /\ Deduplicated(emitted[i].args[1]) = emitted[i].args[1]

\* reply r of getSingleTweet fetched an HTML page without an eligible element
NothingFound(r) ==
    IsGetSingleTweet(r) /\ Completed(r) /\ IsHtml(r) /\ Eligible(PageNodes(r)) = {}

\* C39: a getSingleTweet exchange that fetched an HTML page in which no
\* element is eligible creates no conversation, so no fetch of a related
\* tweet is pending or was ever made; it starts no further exchange and the
\* caller receives nothing for the call, no conversation result in particular.
C39_NothingFoundNothingDone ==
    \A r \in 1..Len(replies) :
        NothingFound(r) =>
            /\ SessionsOf(r) = {}
            /\ ConversationsOf(replies[r].call) = {}
            /\ StartedBy(r) = {}
            /\ RepliesOf(replies[r].call) = {r}
            /\ EmittedFor(replies[r].call) = {}

\* a page of a promoted tweet, a tweet without identifier and another element
C39_Witness ==
    \E r \in 1..Len(replies) :
        /\ NothingFound(r)
        /\ Len(PageNodes(r)) = 3
        /\ \E k \in 1..3 : "promoted-tweet" \in PageNodes(r)[k].classList
        /\ \E k \in 1..3 :
              PageNodes(r)[k].classList = {"tweet"} /\ PageNodes(r)[k].dataTweetId = ""
        /\ conversations = <<>>

====
